---- MODULE Spec2Model ----
(***************************************************************************)
(* Model of the job matching core of JobsearchAI: the session store        *)
(* (MemoryBank), the in-memory vector index (VectorDB) and the matching    *)
(* pass of useJobMatcher.                                                  *)
(*                                                                         *)
(* Optional values are sets: {} is JavaScript's undefined, {v} is v.       *)
(* A Partial<Session> is a function from the keys it carries to values.    *)
(* Every db.get / db.put / db.save / db.delete is one atomic step; the     *)
(* code between two awaits runs with the step that precedes it.            *)
(***************************************************************************)
EXTENDS Integers, Sequences, FiniteSets, TLC

VARIABLES store, now, calls, proc, vectors, durable, nextId, probe, pass

\* the state of the vector index, of its durable snapshot and of the matcher
indexVars == <<vectors, durable, nextId, probe, pass>>
\* the state of the callers of the session store
callVars == <<now, calls, proc>>
vars == <<store, now, calls, proc, vectors, durable, nextId, probe, pass>>

(***************************************************************************)
(* Bounds                                                                  *)
(***************************************************************************)
MaxCalls == 2

(***************************************************************************)
(* Values                                                                  *)
(***************************************************************************)
None == {}
Some(v) == {v}
Val(o) == CHOOSE v \in o : TRUE

Procs == {"p1", "p2"}
UserIds == {"u1"}
GenIds == {"user_1_a"}
Fields == {"userId", "profile", "skills", "resumeRaw", "jobs", "settings",
           "createdAt", "updatedAt"}

\* a text is a sequence of words and of whitespace characters SP; two words
\* never stand side by side
SP == " "

\* src/types/session.ts Job, restricted to the fields the core reads; the
\* matchScore counts hundredths
mkJobFull(id, title, company, description, score, site) ==
  [id |-> id, title |-> title, company |-> company, description |-> description,
   matchScore |-> score, jobSite |-> site]

mkJob(id, title, score, site) ==
  mkJobFull(id, <<title>>, <<"acme">>, None, score, site)

\* src/types/session.ts Session
mkSession(userId, createdAt, updatedAt, profile, skills, resumeRaw, jobs) ==
  [userId |-> userId, profile |-> profile, skills |-> skills,
   resumeRaw |-> resumeRaw, jobs |-> jobs, settings |-> None,
   createdAt |-> createdAt, updatedAt |-> updatedAt]

\* p[k] when the partial object p carries k, undefined otherwise
Get(p, k) == IF k \in DOMAIN p THEN p[k] ELSE None

\* { ...a, ...b } on objects given as functions from keys to values
Spread(a, b) ==
  [k \in (DOMAIN a) \cup (DOMAIN b) |-> IF k \in DOMAIN b THEN b[k] ELSE a[k]]

\* an optional object spread into a literal: ...undefined adds no key
Obj(o) == IF o = None THEN <<>> ELSE Val(o)

(***************************************************************************)
(* Inputs                                                                  *)
(***************************************************************************)
ProfileInputs == { [name |-> "n1"], [name |-> "n2", currentTitle |-> "t2"] }
SkillsInputs == { << <<"python">> >> }
ResumeInputs == { <<"react", SP, "python">> }
JobInputs ==
  { mkJob("j1", "B", Some(5000), None), mkJob("j3", "A", None, None) }
\* callers pass lists with pairwise distinct ids (useJobSearch merges through
\* a Map keyed by id, the matcher maps the stored list)
JobListInputs ==
  { <<mkJob("j2", "A", None, None), mkJob("j1", "A", None, None)>> }
UpdateInputs ==
  { [profile |-> Some([name |-> "n1"])],
    [userId |-> "u2", settings |-> Some("prefs")],
    [skills |-> None] }
SaveInputs ==
  { <<>>,
    [userId |-> "u1", profile |-> Some([currentTitle |-> "t1"])],
    [userId |-> "u1", createdAt |-> 0, skills |-> Some(<< <<"python">> >>)] }

(***************************************************************************)
(* Processes: one asynchronous call each, suspended at its awaits          *)
(***************************************************************************)
IdleProc ==
  [pc |-> "idle", op |-> "none", uid |-> "none", arg |-> <<>>, upd |-> <<>>,
   sess |-> <<>>, read |-> None, seen |-> None, rec |-> None, full |-> None, t0 |-> 0,
   ts |-> 0, err |-> "none", ret |-> "none", peers |-> {}, existed |-> FALSE]

InFlight(p) == proc[p].pc \notin {"idle", "done", "failed"}

\* the frame of a started call: who is running, whether the record exists
Start(p, opName, u, a, pcNext) ==
  [IdleProc EXCEPT !.pc = pcNext, !.op = opName, !.uid = u, !.arg = a,
                   !.t0 = now,
                   !.peers = {q \in Procs \ {p} : InFlight(q)},
                   !.existed = (u \in DOMAIN store)]

\* db.get(SESSION_STORE, userId)
dbGet(u) == IF u \in DOMAIN store THEN Some(store[u]) ELSE None

\* db.put / db.save(SESSION_STORE, session): keyed by session.userId
dbPut(s) == [k \in (DOMAIN store) \cup {s.userId} |-> IF k = s.userId THEN s ELSE store[k]]

\* db.delete(SESSION_STORE, userId)
dbDelete(u) == [k \in (DOMAIN store) \ {u} |-> store[k]]

\* generateUserId(): `user_${Date.now()}_${random}`
generateUserId == GenIds

\* no pure function applied yet, no matching pass mounted
NoProbe ==
  [fn |-> "none", arg |-> <<>>, limit |-> 0, out |-> <<>>, pc |-> "idle", i |-> 0,
   hist |-> <<>>]
NoPass ==
  [pc |-> "unmounted", userId |-> "none", formData |-> <<>>, prefs |-> <<>>,
   restoredJobs |-> <<>>, app |-> "pending", attempt |-> 0, jobs |-> <<>>,
   session |-> None, text |-> <<>>, phase |-> 0, arr |-> None, i |-> 0,
   matched |-> <<>>, rec |-> None, wrote |-> FALSE, failed |-> {}, ranked |-> None,
   out |-> [kind |-> "none", jobs |-> <<>>]]

\* the sessions store is durable: a page load finds what earlier loads left,
\* nothing or the record of u1
InitStores ==
  { <<>>,
    [u \in {"u1"} |->
       mkSession("u1", 0, 0, Some([currentTitle |-> "t1"]), None, None,
                 Some(<<mkJob("j2", "A", None, None), mkJob("j1", "A", Some(7500), None)>>))] }

Init ==
  /\ store \in InitStores
  /\ now = 1
  /\ calls = 0
  /\ proc = [p \in Procs |-> IdleProc]
  /\ vectors = <<>>
  /\ durable = <<>>
  /\ nextId = 1
  /\ probe = NoProbe
  /\ pass = NoPass

\* a process starts a call when its previous one has returned; the processes
\* are interchangeable, so the first call of a run is p1's
CanCall(p) ==
  /\ proc[p].pc \in {"idle", "done", "failed"}
  /\ calls < MaxCalls
  /\ p = "p1" \/ calls > 0

\* a call runs up to its first await; successive calls start at successive
\* instants of the wall clock
Called(p, r) == [proc EXCEPT ![p] = r]

\* a merge that lets the updates rewrite userId
mergeSession_KeyFromUpdates(existing, updates, userId, ts) ==
  Spread(Spread(existing, updates), [updatedAt |-> ts])

\* the merge of updateSession
mergeSession(existing, updates, userId, ts) ==
  Spread(Spread(existing, updates), [userId |-> userId, updatedAt |-> ts])

\* an updateSession that creates the record it does not find
updateSession_Upsert(existing, updates, userId, ts) ==
  [throw |-> FALSE,
   put |-> Some(mergeSession(IF existing = None
                             THEN mkSession(userId, ts, ts, None, None, None, None)
                             ELSE Val(existing),
                             updates, userId, ts))]

\* updateSession after its db.get: the not-found throw or the record to put
updateSession(existing, updates, userId, ts) ==
  IF existing = None
  THEN [throw |-> TRUE, put |-> None]
  ELSE [throw |-> FALSE, put |-> Some(mergeSession(Val(existing), updates, userId, ts))]

\* a fullSession that ignores session.createdAt
fullSession_CreatedNow(session, userId, t) ==
  mkSession(userId, t, t,
            Get(session, "profile"), Get(session, "skills"),
            Get(session, "resumeRaw"), Get(session, "jobs"))

\* saveSession: the record built before the existence check
fullSession(session, userId, t) ==
  mkSession(userId,
            IF "createdAt" \in DOMAIN session THEN session.createdAt ELSE t,
            t,
            Get(session, "profile"), Get(session, "skills"),
            Get(session, "resumeRaw"), Get(session, "jobs"))

\* updateProfile: { ...existing.profile, ...profile }
updatedProfile(existing, profile) == Spread(Obj(existing.profile), profile)

\* an addJob that pushes without looking for the id
upsertJob_AlwaysPush(currentJobs, job) == Append(currentJobs, job)

\* addJob: replace the first job with the same id, else push
upsertJob(currentJobs, job) ==
  IF \E i \in 1..Len(currentJobs) : currentJobs[i].id = job.id
  THEN LET existingJobIndex ==
             CHOOSE i \in 1..Len(currentJobs) :
               /\ currentJobs[i].id = job.id
               /\ \A j \in 1..(i - 1) : currentJobs[j].id # job.id
       IN [currentJobs EXCEPT ![existingJobIndex] = job]
  ELSE Append(currentJobs, job)

\* a frame entering saveSession(session): now, userId and fullSession are
\* computed before the first await
EnterSave(r, session, userId) ==
  [r EXCEPT !.pc = "ss_get", !.sess = session, !.uid = userId,
            !.full = Some(fullSession(session, userId, now))]

\* a settled call: the frame's locals are gone, the outcome stays
Settle(r, pcEnd, e, v) ==
  [IdleProc EXCEPT !.pc = pcEnd, !.op = r.op, !.uid = r.uid, !.arg = r.arg,
                   !.err = e, !.ret = v, !.peers = r.peers,
                   !.existed = r.existed]

\* a frame entering updateSession(userId, updates)
EnterUpdate(r, updates) == [r EXCEPT !.pc = "us_get", !.upd = updates]

\* updateSession(userId, updates) called from outside, up to its db.get
updateSessionCall(p) ==
  \E u \in UserIds, P \in UpdateInputs :
    /\ CanCall(p)
    /\ calls' = calls + 1
    /\ now' = now + 1
    /\ proc' = Called(p, EnterUpdate(Start(p, "updateSession", u, P, "us_get"), P))
    /\ UNCHANGED store
    /\ UNCHANGED indexVars

\* updateSkills(userId, skills)
updateSkillsCall(p) ==
  \E u \in UserIds, skills \in SkillsInputs :
    /\ CanCall(p)
    /\ calls' = calls + 1
    /\ now' = now + 1
    /\ proc' = Called(p, EnterUpdate(Start(p, "updateSkills", u, skills, "us_get"),
                            [skills |-> Some(skills)]))
    /\ UNCHANGED store
    /\ UNCHANGED indexVars

\* updateResume(userId, resumeRaw)
updateResumeCall(p) ==
  \E u \in UserIds, resumeRaw \in ResumeInputs :
    /\ CanCall(p)
    /\ calls' = calls + 1
    /\ now' = now + 1
    /\ proc' = Called(p, EnterUpdate(Start(p, "updateResume", u, resumeRaw, "us_get"),
                            [resumeRaw |-> Some(resumeRaw)]))
    /\ UNCHANGED store
    /\ UNCHANGED indexVars

\* updateJobs(userId, jobs)
updateJobsCall(p) ==
  \E u \in UserIds, jobs \in JobListInputs :
    /\ CanCall(p)
    /\ calls' = calls + 1
    /\ now' = now + 1
    /\ proc' = Called(p, EnterUpdate(Start(p, "updateJobs", u, jobs, "us_get"),
                            [jobs |-> Some(jobs)]))
    /\ UNCHANGED store
    /\ UNCHANGED indexVars

\* addJob(userId, job), up to its db.get
addJobCall(p) ==
  \E u \in UserIds, job \in JobInputs :
    /\ CanCall(p)
    /\ calls' = calls + 1
    /\ now' = now + 1
    /\ proc' = Called(p, Start(p, "addJob", u, job, "aj_get"))
    /\ UNCHANGED store
    /\ UNCHANGED indexVars

\* updateProfile(userId, profile), up to its db.get
updateProfileCall(p) ==
  \E u \in UserIds, profile \in ProfileInputs :
    /\ CanCall(p)
    /\ calls' = calls + 1
    /\ now' = now + 1
    /\ proc' = Called(p, Start(p, "updateProfile", u, profile, "up_get"))
    /\ UNCHANGED store
    /\ UNCHANGED indexVars

\* saveSession(session), up to its db.get
saveSessionCall(p) ==
  \E session \in SaveInputs :
    \E userId \in (IF "userId" \in DOMAIN session THEN {session.userId} ELSE generateUserId) :
      /\ CanCall(p)
      /\ calls' = calls + 1
      /\ now' = now + 1
      /\ proc' = Called(p, EnterSave(Start(p, "saveSession", userId, session, "ss_get"),
                            session, userId))
      /\ UNCHANGED store
      /\ UNCHANGED indexVars

\* clearSession(userId), up to its db.delete
clearSessionCall(p) ==
  \E u \in UserIds :
    /\ CanCall(p)
    /\ calls' = calls + 1
    /\ now' = now + 1
    /\ proc' = Called(p, Start(p, "clearSession", u, <<>>, "cs_del"))
    /\ UNCHANGED store
    /\ UNCHANGED indexVars

\* saveSession: await db.get; an existing record turns the call into
\* updateSession(userId, session)
saveSessionGet(p) ==
  /\ proc[p].pc = "ss_get"
  /\ proc' = [proc EXCEPT ![p] =
       IF dbGet(proc[p].uid) # None
       THEN EnterUpdate(proc[p], proc[p].sess)
       ELSE [proc[p] EXCEPT !.pc = "ss_save"]]
  /\ UNCHANGED <<store, now, calls>>
  /\ UNCHANGED indexVars

\* saveSession: await db.save(SESSION_STORE, fullSession); return userId
saveSessionSave(p) ==
  /\ proc[p].pc = "ss_save"
  /\ store' = dbPut(Val(proc[p].full))
  /\ proc' = [proc EXCEPT ![p] = Settle(proc[p], "done", "none", proc[p].uid)]
  /\ UNCHANGED <<now, calls>>
  /\ UNCHANGED indexVars

\* updateProfile: await db.get; a missing record goes to saveSession, an
\* existing one to updateSession with the merged profile
updateProfileGet(p) ==
  /\ proc[p].pc = "up_get"
  /\ LET existing == dbGet(proc[p].uid)
         r == [proc[p] EXCEPT !.read = existing]
     IN proc' = [proc EXCEPT ![p] =
          IF existing = None
          THEN EnterSave(r, [userId |-> proc[p].uid, profile |-> Some(proc[p].arg)],
                         proc[p].uid)
          ELSE EnterUpdate(r, [profile |-> Some(updatedProfile(Val(existing), proc[p].arg))])]
  /\ UNCHANGED <<store, now, calls>>
  /\ UNCHANGED indexVars

\* addJob: await db.get; upsert into existing?.jobs || []; updateJobs
addJobGet(p) ==
  /\ proc[p].pc = "aj_get"
  /\ LET existing == dbGet(proc[p].uid)
         currentJobs == IF existing = None THEN <<>>
                        ELSE IF Val(existing).jobs = None THEN <<>>
                        ELSE Val(Val(existing).jobs)
     IN proc' = [proc EXCEPT ![p] =
          EnterUpdate([proc[p] EXCEPT !.read = Some(currentJobs)],
                      [jobs |-> Some(upsertJob(currentJobs, proc[p].arg))])]
  /\ UNCHANGED <<store, now, calls>>
  /\ UNCHANGED indexVars

\* updateSession: await db.get, the not-found throw, the merge
updateSessionGet(p) ==
  /\ proc[p].pc = "us_get"
  /\ LET out == updateSession(dbGet(proc[p].uid), proc[p].upd, proc[p].uid, now) IN
       IF out.throw
       THEN proc' = [proc EXCEPT ![p] = Settle(proc[p], "failed", "NotFound", "none")]
       ELSE proc' = [proc EXCEPT ![p].pc = "us_put", ![p].rec = out.put,
                                 ![p].seen = dbGet(proc[p].uid), ![p].ts = now]
  /\ UNCHANGED <<store, now, calls>>
  /\ UNCHANGED indexVars

\* updateSession: await db.put(SESSION_STORE, updated)
updateSessionPut(p) ==
  /\ proc[p].pc = "us_put"
  /\ store' = dbPut(Val(proc[p].rec))
  /\ proc' = [proc EXCEPT ![p] =
       IF proc[p].op = "saveSessionState"
       THEN [proc[p] EXCEPT !.pc = "sv_clear"]
       ELSE Settle(proc[p], "done", "none",
                   IF proc[p].op = "saveSession" THEN proc[p].uid ELSE "none")]
  /\ UNCHANGED <<now, calls>>
  /\ UNCHANGED indexVars

\* clearSession: await db.delete(SESSION_STORE, userId)
clearSessionDelete(p) ==
  /\ proc[p].pc = "cs_del"
  /\ store' = dbDelete(proc[p].uid)
  /\ proc' = [proc EXCEPT ![p] = Settle(proc[p], "done", "none", "none")]
  /\ UNCHANGED <<now, calls>>
  /\ UNCHANGED indexVars

Next ==
  \/ \E p \in Procs :
       \/ saveSessionCall(p)
       \/ updateSessionCall(p)
       \/ updateProfileCall(p)
       \/ updateJobsCall(p)
       \/ addJobCall(p)
       \/ updateSkillsCall(p)
       \/ updateResumeCall(p)
       \/ clearSessionCall(p)
       \/ saveSessionGet(p)
       \/ saveSessionSave(p)
       \/ updateProfileGet(p)
       \/ addJobGet(p)
       \/ updateSessionGet(p)
       \/ updateSessionPut(p)
       \/ clearSessionDelete(p)

Spec == Init /\ [][Next]_vars

(***************************************************************************)
(* Properties of the session store                                         *)
(***************************************************************************)
\* process p settles its call in this step
Settles(p) == InFlight(p) /\ proc'[p].pc \in {"done", "failed"}

\* the job list of a stored record, existing.jobs || []
JobsOf(s) == IF s.jobs = None THEN <<>> ELSE Val(s.jobs)

\* every record but the one under key u is left alone
OthersKept(u) ==
  /\ DOMAIN store' = DOMAIN store \cup {u}
  /\ \A k \in DOMAIN store \ {u} : store'[k] = store[k]

\* C1: updateSession(userId, P) on an existing record that nobody rewrote
\* since it was read keeps every field P does not name, sets every field P
\* names, keeps userId equal to the key even when P carries another userId,
\* and sets updatedAt to the time of the call.
C1_UpdateFrame ==
  [][\A p \in Procs :
       (/\ proc[p].op = "updateSession"
        /\ proc[p].pc = "us_put"
        /\ Settles(p)
        /\ dbGet(proc[p].uid) = proc[p].seen)
       => LET u == proc[p].uid
              P == proc[p].arg
              fixed == {"userId", "updatedAt"}
          IN /\ OthersKept(u)
             /\ u \in DOMAIN store
             /\ \A f \in Fields \ (DOMAIN P \cup fixed) : store'[u][f] = store[u][f]
             /\ \A f \in (DOMAIN P) \ fixed : store'[u][f] = P[f]
             /\ store'[u].userId = u
             /\ store'[u].updatedAt = proc[p].ts
             /\ proc[p].t0 <= proc[p].ts /\ proc[p].ts <= now]_vars

C1_Witness ==
  \E p \in Procs :
    /\ proc[p].op = "updateSession" /\ proc[p].pc = "done" /\ proc[p].existed
    /\ "userId" \in DOMAIN proc[p].arg /\ proc[p].arg.userId # proc[p].uid
    /\ proc[p].uid \in DOMAIN store
    /\ store[proc[p].uid].userId = proc[p].uid
    /\ store[proc[p].uid].settings = proc[p].arg.settings
    /\ store[proc[p].uid].profile # None
    /\ store[proc[p].uid].updatedAt > store[proc[p].uid].createdAt

\* C2: when updateProfile(u, {name}) and updateSkills(u, skills) overlap on an
\* existing session, the session after both completed has profile.name and
\* skills defined.
C2_NoLostWrite ==
  \A p, q \in Procs :
    (/\ p # q
     /\ proc[p].op = "updateProfile" /\ proc[p].pc = "done" /\ proc[p].existed
     /\ proc[q].op = "updateSkills" /\ proc[q].pc = "done" /\ proc[q].existed
     /\ proc[p].uid = proc[q].uid
     /\ q \in proc[p].peers \/ p \in proc[q].peers
     /\ "name" \in DOMAIN proc[p].arg)
    => /\ proc[p].uid \in DOMAIN store
       /\ "name" \in DOMAIN Obj(store[proc[p].uid].profile)
       /\ store[proc[p].uid].skills # None

\* the record s holds what the call op(arg) wrote
Wrote(opName, a, s) ==
  CASE opName = "updateJobs" -> s.jobs = Some(a)
    [] opName = "updateSkills" -> s.skills = Some(a)
    [] opName = "updateResume" -> s.resumeRaw = Some(a)
    [] opName = "addJob" -> \E i \in 1..Len(JobsOf(s)) : JobsOf(s)[i] = a
    [] OTHER -> TRUE

\* C3: addJob, updateJobs, updateSkills and updateResume called for a userId
\* without a record complete without error and leave a record holding the
\* written field.
C3_CreateOnDemand ==
  [][\A p \in Procs :
       (/\ proc[p].op \in {"addJob", "updateJobs", "updateSkills", "updateResume"}
        /\ ~proc[p].existed
        /\ Settles(p))
       => /\ proc'[p].pc = "done"
          /\ proc[p].uid \in DOMAIN store'
          /\ Wrote(proc[p].op, proc[p].arg, store'[proc[p].uid])]_vars

\* C4: updateProfile(userId, P) never fails because the session is missing;
\* on a missing record it creates one whose profile is P, on an existing one
\* it merges P into the profile and leaves the other fields alone.
C4_ProfileNeverFails ==
  [][\A p \in Procs :
       (proc[p].op = "updateProfile" /\ Settles(p))
       => LET u == proc[p].uid
              P == proc[p].arg
          IN /\ proc'[p].pc = "done"
             /\ (proc[p].pc = "ss_save" /\ dbGet(u) = None)
                => store'[u].profile = Some(P)
             /\ (proc[p].pc = "us_put" /\ proc[p].read # None /\ dbGet(u) = proc[p].read)
                => /\ \A k \in DOMAIN P : Val(store'[u].profile)[k] = P[k]
                   /\ \A k \in (DOMAIN Obj(store[u].profile)) \ DOMAIN P :
                        Val(store'[u].profile)[k] = Val(store[u].profile)[k]
                   /\ \A f \in Fields \ {"profile", "updatedAt"} :
                        store'[u][f] = store[u][f]]_vars

\* C5: updateSession(userId, P) for a userId without a record fails with the
\* not-found error and leaves the store as it was.
C5_UpdateMissingFails ==
  [][\A p \in Procs :
       (/\ proc[p].op = "updateSession"
        /\ proc[p].pc = "us_get"
        /\ dbGet(proc[p].uid) = None
        /\ proc'[p] # proc[p])
       => /\ proc'[p].pc = "failed"
          /\ proc'[p].err = "NotFound"
          /\ store' = store]_vars

C5_Witness ==
  \E p \in Procs :
    /\ proc[p].op = "updateSession" /\ proc[p].pc = "failed"
    /\ proc[p].err = "NotFound" /\ ~proc[p].existed
    /\ proc[p].uid \notin DOMAIN store

\* C6: addJob(userId, job) on an existing session whose list nobody rewrote
\* since it was read is an upsert by id: exactly one stored job has job.id and
\* it is the given job, the other jobs are unchanged and in their order, the
\* length grows by one when the id was absent and is unchanged otherwise.
C6_AddJobUpsert ==
  [][\A p \in Procs :
       (/\ proc[p].op = "addJob"
        /\ proc[p].pc = "us_put"
        /\ Settles(p)
        /\ proc[p].existed
        /\ proc[p].uid \in DOMAIN store
        /\ Some(JobsOf(store[proc[p].uid])) = proc[p].read)
       => LET job == proc[p].arg
              L == JobsOf(store[proc[p].uid])
              L2 == JobsOf(store'[proc[p].uid])
          IN /\ Cardinality({i \in 1..Len(L2) : L2[i].id = job.id}) = 1
             /\ \A i \in 1..Len(L2) : L2[i].id = job.id => L2[i] = job
             /\ SelectSeq(L2, LAMBDA j : j.id # job.id)
                  = SelectSeq(L, LAMBDA j : j.id # job.id)
             /\ Len(L2) = IF \E i \in 1..Len(L) : L[i].id = job.id
                          THEN Len(L) ELSE Len(L) + 1]_vars

C6_Witness ==
  \E p \in Procs :
    /\ proc[p].op = "addJob" /\ proc[p].pc = "done" /\ proc[p].existed
    /\ proc[p].peers = {}
    /\ proc[p].uid \in DOMAIN store
    /\ Len(JobsOf(store[proc[p].uid])) = 2
    /\ JobsOf(store[proc[p].uid])[2] = proc[p].arg
    /\ JobsOf(store[proc[p].uid])[1].id # proc[p].arg.id

\* C7 as stated: saveSession(partial) for a key without a record creates a
\* record whose createdAt and updatedAt both are the time of the call, for
\* every partial, and returns partial.userId or a generated id.
C7_CreatedEqualsUpdated ==
  [][\A p \in Procs :
       (proc[p].op = "saveSession" /\ proc[p].pc = "ss_save" /\ Settles(p))
       => LET s == store'[proc'[p].ret] IN
            /\ s.createdAt = proc[p].t0
            /\ s.updatedAt = proc[p].t0
            /\ proc'[p].ret \in
                 (IF "userId" \in DOMAIN proc[p].arg
                  THEN {proc[p].arg.userId} ELSE GenIds)]_vars

\* C7 amended: the created record has updatedAt = the time of the call and
\* createdAt = partial.createdAt when the partial carries one, the time of
\* the call otherwise; the id returned is partial.userId or a generated id
\* and is the key of the record.
C7_CreatedAtFromPartial ==
  [][\A p \in Procs :
       (proc[p].op = "saveSession" /\ proc[p].pc = "ss_save" /\ Settles(p))
       => LET s == store'[proc'[p].ret]
              partial == proc[p].arg
          IN /\ proc'[p].pc = "done"
             /\ proc'[p].ret \in DOMAIN store'
             /\ s.userId = proc'[p].ret
             /\ s.updatedAt = proc[p].t0
             /\ s.createdAt = IF "createdAt" \in DOMAIN partial
                              THEN partial.createdAt ELSE proc[p].t0
             /\ proc'[p].ret \in
                  (IF "userId" \in DOMAIN partial
                   THEN {partial.userId} ELSE GenIds)]_vars

C7_Witness ==
  \E p \in Procs :
    /\ proc[p].op = "saveSession" /\ proc[p].pc = "done" /\ ~proc[p].existed
    /\ "createdAt" \in DOMAIN proc[p].arg
    /\ proc[p].ret \in DOMAIN store
    /\ store[proc[p].ret].createdAt = proc[p].arg.createdAt
    /\ store[proc[p].ret].createdAt # store[proc[p].ret].updatedAt


(***************************************************************************)
(* VectorDB.  A JavaScript number is NaN or a fixed-point value: a         *)
(* similarity counts 1/10000, a score counts 1/100 (the two decimals the   *)
(* code rounds to), a square root keeps two decimals.  An embedding        *)
(* component counts 1/FreqScale.                                           *)
(***************************************************************************)
NaN == [nan |-> TRUE, v |-> 0]
Num(v) == [nan |-> FALSE, v |-> v]

Min(a, b) == IF a <= b THEN a ELSE b
Max(a, b) == IF a >= b THEN a ELSE b

RECURSIVE IsqrtIter(_, _, _)
IsqrtIter(n, lo, hi) ==
  IF lo >= hi THEN lo
  ELSE LET mid == (lo + hi + 1) \div 2
       IN IF mid * mid <= n THEN IsqrtIter(n, mid, hi) ELSE IsqrtIter(n, lo, mid - 1)

\* Math.sqrt(x) in hundredths
Sqrt(x) == IsqrtIter(x * 10000, 0, 46340)

RECURSIVE DotFrom(_, _, _)
DotFrom(a, b, i) ==
  IF i > Len(a) THEN 0 ELSE a[i] * b[i] + DotFrom(a, b, i + 1)

\* VectorDB.cosineSimilarity: 0 on a length mismatch, 0/0 = NaN when a norm
\* is zero
cosineSimilarity(a, b) ==
  IF Len(a) # Len(b) THEN Num(0)
  ELSE LET dotProduct == DotFrom(a, b, 1)
           normA == DotFrom(a, a, 1)
           normB == DotFrom(b, b, 1)
       IN IF normA = 0 \/ normB = 0 THEN NaN
          ELSE Num((dotProduct * 1000000) \div ((Sqrt(normA) * Sqrt(normB)) \div 100))

\* Math.max(0, Math.min(100, ((similarity + 1) / 2) * 100)), in 1/10000
clampScore(similarity) ==
  IF similarity.nan THEN NaN
  ELSE Num(Max(0, Min(1000000, (similarity.v + 10000) * 50)))

\* Math.round(score * 100) / 100, in hundredths
roundScore(score) ==
  IF score.nan THEN NaN ELSE Num((score.v + 50) \div 100)

\* v.metadata?.type === 'job'
IsJobVector(v) == v.metadata # None /\ Val(v.metadata).type = "job"

\* findSimilarJobs: the result computed for one job vector
matchOf(userEmbedding, vector) ==
  [jobId |-> Val(vector.metadata).jobId,
   score |-> roundScore(clampScore(cosineSimilarity(userEmbedding, vector.embedding))),
   metadata |-> Obj(vector.metadata)]

\* a filter that looks at the jobId only
keepMatch_IdOnly(result) == result.jobId # None

\* findSimilarJobs: result.jobId && result.score > 0 (NaN > 0 is false)
keepMatch(result) ==
  /\ result.jobId # None
  /\ ~result.score.nan
  /\ result.score.v > 0

RECURSIVE MapMatches(_, _)
MapMatches(userEmbedding, vs) ==
  IF vs = <<>> THEN <<>>
  ELSE <<matchOf(userEmbedding, Head(vs))>> \o MapMatches(userEmbedding, Tail(vs))

\* x goes after every element whose key is not below its own
InsertDesc(sorted, x, key) ==
  LET n == Len(sorted)
      k == IF \E i \in 1..n : key[sorted[i]] < key[x]
           THEN CHOOSE i \in 1..n :
                  /\ key[sorted[i]] < key[x]
                  /\ \A j \in 1..(i - 1) : key[sorted[j]] >= key[x]
           ELSE n + 1
  IN SubSeq(sorted, 1, k - 1) \o <<x>> \o SubSeq(sorted, k, n)

RECURSIVE SortedPrefix(_, _)
SortedPrefix(key, n) ==
  IF n = 0 THEN <<>> ELSE InsertDesc(SortedPrefix(key, n - 1), n, key)

\* a sort that leaves the elements where they are
SortDesc_Unsorted(key) == [i \in 1..Len(key) |-> i]

\* Array.prototype.sort((a, b) => key(b) - key(a)): the indices of the
\* elements in stable descending order of their keys
SortDesc(key) == SortedPrefix(key, Len(key))

\* VectorDB.findSimilarJobs(userEmbedding, limit) on the index content vs
findSimilarJobs(vs, userEmbedding, limit) ==
  LET jobVectors == SelectSeq(vs, IsJobVector)
      results == SelectSeq(MapMatches(userEmbedding, jobVectors), keepMatch)
      order == SortDesc([i \in 1..Len(results) |-> results[i].score.v])
      sorted == [i \in 1..Len(results) |-> results[order[i]]]
  IN SubSeq(sorted, 1, Min(limit, Len(sorted)))

\* src/lib/vectorDB.ts Vector
mkVector(id, embedding, text, metadata) ==
  [id |-> id, embedding |-> embedding, text |-> text, metadata |-> metadata]

jobMeta(jobId) == Some([type |-> "job", jobId |-> jobId])

(***************************************************************************)
(* Text, the embedder and embedJob                                         *)
(***************************************************************************)
\* the vector length of the embedder (128 in the code) and the unit of a
\* term frequency
EmbDim == 3
FreqScale == 12

UpperToLower == [Python |-> "python", React |-> "react"]

\* String.prototype.toLowerCase, word by word
toLowerCase(text) ==
  [i \in 1..Len(text) |->
     IF text[i] \in DOMAIN UpperToLower THEN UpperToLower[text[i]] ELSE text[i]]

\* String.prototype.split(/\s+/): the words, with an empty string in front
\* of leading whitespace and behind trailing whitespace; "" gives [""]
split(text) ==
  IF text = <<>> THEN <<"">>
  ELSE (IF Head(text) = SP THEN <<"">> ELSE <<>>)
       \o SelectSeq(text, LAMBDA x : x # SP)
       \o (IF text[Len(text)] = SP THEN <<"">> ELSE <<>>)

RECURSIVE trim(_)
\* String.prototype.trim
trim(text) ==
  IF text = <<>> THEN <<>>
  ELSE IF Head(text) = SP THEN trim(Tail(text))
  ELSE IF text[Len(text)] = SP THEN trim(SubSeq(text, 1, Len(text) - 1))
  ELSE text

RECURSIVE join(_)
\* Array.prototype.join(' ')
join(parts) ==
  IF parts = <<>> THEN <<>>
  ELSE IF Len(parts) = 1 THEN Head(parts)
  ELSE Head(parts) \o <<SP>> \o join(Tail(parts))

\* text followed by a character that is not whitespace: it extends the last
\* word
suffixed(text, c) ==
  IF text = <<>> \/ text[Len(text)] = SP THEN text \o <<c>>
  ELSE [text EXCEPT ![Len(text)] = @ \o c]

\* the number of occurrences of w in words
Count(words, w) == Cardinality({i \in 1..Len(words) : words[i] = w})

RECURSIVE Distinct(_, _)
\* Array.from(new Set(words)): the words in the order of first appearance
Distinct(words, seen) ==
  IF words = <<>> THEN <<>>
  ELSE IF Head(words) \in seen THEN Distinct(Tail(words), seen)
  ELSE <<Head(words)>> \o Distinct(Tail(words), seen \cup {Head(words)})

\* VectorDB.generateEmbedding
generateEmbedding(text) ==
  LET words == split(toLowerCase(text))
      allWords == Distinct(words, {})
  IN [idx \in 1..EmbDim |->
        IF idx <= Len(allWords)
        THEN (Count(words, allWords[idx]) * FreqScale) \div Len(words)
        ELSE 0]

\* VectorDB.generateUserEmbedding
generateUserEmbedding(text) == generateEmbedding(text)

\* VectorDB.embedJob / addVector: the entry pushed for a job, under id
embedJob(job, id) ==
  mkVector(id,
           generateEmbedding(
             trim(job.title \o <<SP, "at", SP>> \o suffixed(job.company, ".")
                  \o <<SP>> \o Obj(job.description))),
           trim(job.title \o <<SP, "at", SP>> \o suffixed(job.company, ".")
                \o <<SP>> \o Obj(job.description)),
           Some([type |-> "job", jobId |-> Some(job.id), title |-> job.title,
                 company |-> job.company]))

(***************************************************************************)
(* filterAndPrioritizeJobs                                                 *)
(***************************************************************************)
\* preferences[job.jobSite || 'Unknown']
preferenceOf(job, preferences) ==
  LET siteName == IF job.jobSite = None THEN "Unknown" ELSE Val(job.jobSite)
  IN IF siteName \in DOMAIN preferences THEN preferences[siteName] ELSE "none"

\* the bucket a job is pushed to
bucketOf(job, preferences) ==
  IF preferenceOf(job, preferences) = "exclude" THEN "excluded"
  ELSE IF preferenceOf(job, preferences) = "include" THEN "included"
  ELSE "neutral"

\* a bucket filled from the front
bucket_Unshift(jobs, preferences, name) ==
  LET b == SelectSeq(jobs, LAMBDA j : bucketOf(j, preferences) = name)
  IN [k \in 1..Len(b) |-> b[Len(b) + 1 - k]]

\* the jobs pushed to a bucket by the loop, in the order of the loop
bucket(jobs, preferences, name) ==
  SelectSeq(jobs, LAMBDA j : bucketOf(j, preferences) = name)

\* a result with the neutral jobs in front
prioritized_NeutralFirst(included, neutral) == neutral \o included

\* [...included, ...neutral]
prioritized(included, neutral) == included \o neutral

filterAndPrioritizeJobs(jobs, preferences) ==
  IF DOMAIN preferences = {} THEN jobs
  ELSE prioritized(bucket(jobs, preferences, "included"),
                   bucket(jobs, preferences, "neutral"))

(***************************************************************************)
(* The index functions applied to drawn index contents and query vectors   *)
(***************************************************************************)
MaxVectors == 2

\* query vectors: unit, mixed, opposite, all-zero
QueryInputs == { <<12, 0>>, <<6, 6>>, <<-12, 0>>, <<0, 0>> }

\* stored entries: job vectors (unit, mixed, opposite, all-zero, of another
\* length), a job vector without a jobId, a document chunk, an untagged entry
EntryInputs ==
  { mkVector(0, <<12, 0>>, <<>>, jobMeta(Some("j1"))),
    mkVector(0, <<6, 6>>, <<>>, jobMeta(Some("j2"))),
    mkVector(0, <<-12, 0>>, <<>>, jobMeta(Some("j2"))),
    mkVector(0, <<0, 0>>, <<>>, jobMeta(Some("j1"))),
    mkVector(0, <<12, 0, 0>>, <<>>, jobMeta(Some("j2"))),
    mkVector(0, <<12, 0>>, <<>>, jobMeta(None)),
    mkVector(0, <<12, 0>>, <<>>, Some([type |-> "doc", jobId |-> None])),
    mkVector(0, <<0, 12>>, <<>>, None) }

IndexInputs ==
  UNION { [1..n -> EntryInputs] : n \in 0..MaxVectors }

InitFind ==
  /\ store = <<>>
  /\ now = 1
  /\ calls = 0
  /\ proc = [p \in Procs |-> IdleProc]
  /\ vectors \in IndexInputs
  /\ durable = <<>>
  /\ nextId = 1
  /\ probe = NoProbe
  /\ pass = NoPass

\* findSimilarJobs(userEmbedding, limit) called on the index
findSimilarJobsApply ==
  \E userEmbedding \in QueryInputs, limit \in 0..MaxVectors :
    /\ probe' = [NoProbe EXCEPT !.fn = "findSimilarJobs", !.arg = userEmbedding, !.limit = limit,
                 !.out = findSimilarJobs(vectors, userEmbedding, limit)]
    /\ UNCHANGED <<store, now, calls, proc, vectors, durable, nextId, pass>>

\* the vectors cosineSimilarity is applied to: the query vectors and one of
\* another length
CosineInputs == QueryInputs \cup { <<12, 0, 0>> }

\* cosineSimilarity(a, b), as findSimilarJobs and search call it; the
\* function keeps no state, one application per behaviour shows them all
cosineSimilarityApply ==
  \E a \in CosineInputs, b \in CosineInputs :
    /\ probe.fn = "none"
    /\ probe' = [NoProbe EXCEPT !.fn = "cosineSimilarity", !.arg = <<a, b>>,
                 !.out = <<cosineSimilarity(a, b)>>]
    /\ UNCHANGED <<store, now, calls, proc, vectors, durable, nextId, pass>>

NextFind ==
  \/ findSimilarJobsApply
  \/ cosineSimilarityApply

SpecFind == InitFind /\ [][NextFind]_vars

\* C10: every score findSimilarJobs returns is a number between 0 and 100,
\* never NaN, also when a stored vector is all-zero or of another length
\* than the query vector.
C10_ScoreBounds ==
  probe.fn = "findSimilarJobs"
  => \A i \in 1..Len(probe.out) :
       /\ ~probe.out[i].score.nan
       /\ 0 <= probe.out[i].score.v
       /\ probe.out[i].score.v <= 10000

C10_Witness ==
  /\ probe.fn = "findSimilarJobs"
  /\ Len(probe.out) = 1
  /\ \E i \in 1..Len(vectors) :
       /\ IsJobVector(vectors[i])
       /\ Val(vectors[i].metadata).jobId # None
       /\ DotFrom(vectors[i].embedding, vectors[i].embedding, 1) = 0
       /\ Len(vectors[i].embedding) = Len(probe.arg)
  /\ \E i \in 1..Len(vectors) :
       /\ IsJobVector(vectors[i])
       /\ Len(vectors[i].embedding) # Len(probe.arg)
       /\ Val(vectors[i].metadata).jobId = probe.out[1].jobId
       /\ probe.out[1].score.v = 5000

\* C27: cosineSimilarity returns the number 0 when the two vectors differ in
\* length and when one of them is all-zero.
C27_UndefinedIsZero ==
  (/\ probe.fn = "cosineSimilarity"
   /\ \/ Len(probe.arg[1]) # Len(probe.arg[2])
      \/ DotFrom(probe.arg[1], probe.arg[1], 1) = 0
      \/ DotFrom(probe.arg[2], probe.arg[2], 1) = 0)
  => probe.out[1] = Num(0)

\* the part of C27 about vectors of different lengths
C27_LengthMismatchIsZero ==
  (probe.fn = "cosineSimilarity" /\ Len(probe.arg[1]) # Len(probe.arg[2]))
  => probe.out[1] = Num(0)

\* the entries of the index tagged type = "job"
JobEntries == {i \in 1..Len(vectors) : IsJobVector(vectors[i])}

\* C11: findSimilarJobs returns only entries tagged type = "job" that carry
\* a jobId, at most limit of them, each score not below the next one; on an
\* index without job-tagged entries it returns the empty list.
C11_JobsLimitOrder ==
  probe.fn = "findSimilarJobs"
  => /\ \A i \in 1..Len(probe.out) :
          /\ probe.out[i].jobId # None
          /\ \E k \in JobEntries :
               /\ Val(vectors[k].metadata).jobId = probe.out[i].jobId
               /\ probe.out[i] = matchOf(probe.arg, vectors[k])
     /\ Len(probe.out) <= probe.limit
     /\ Len(probe.out) <= Cardinality(JobEntries)
     /\ \A i \in 1..(Len(probe.out) - 1) :
          probe.out[i].score.v >= probe.out[i + 1].score.v
     /\ JobEntries = {} => probe.out = <<>>

\* two job entries stored in ascending order of their scores come back in
\* descending order
C11_Witness ==
  /\ probe.fn = "findSimilarJobs"
  /\ Len(vectors) = 2
  /\ JobEntries = {1, 2}
  /\ Len(probe.out) = 2
  /\ probe.out[1] = matchOf(probe.arg, vectors[2])
  /\ probe.out[2] = matchOf(probe.arg, vectors[1])
  /\ probe.out[1].score.v > probe.out[2].score.v

\* an index of document chunks and untagged entries only gives no result
C11_WitnessNoJobs ==
  /\ probe.fn = "findSimilarJobs"
  /\ Len(vectors) = 2
  /\ JobEntries = {}
  /\ probe.limit > 0
  /\ probe.out = <<>>

(***************************************************************************)
(* The index built from job texts and queried with text                    *)
(***************************************************************************)
RECURSIVE SeqOfIds(_)
SeqOfIds(ids) ==
  IF ids = {} THEN <<>>
  ELSE LET m == CHOOSE x \in ids : \A y \in ids : x <= y
       IN <<m>> \o SeqOfIds(ids \ {m})

\* db.getAll('vectors'): the records in key order
dbGetAllVectors == [k \in 1..Cardinality(DOMAIN durable) |-> durable[SeqOfIds(DOMAIN durable)[k]]]

\* db.put('vectors', vector)
dbPutVector(v) ==
  [k \in (DOMAIN durable) \cup {v.id} |-> IF k = v.id THEN v ELSE durable[k]]

MaxEmbeds == 3

IndexJob1 == mkJobFull("j1", <<"Python">>, <<"acme">>, None, None, None)
IndexJob2 == mkJobFull("j2", <<"java">>, <<"initech">>, None, None, None)
IndexJob3 == mkJobFull("j3", <<"react">>, <<"acme">>, Some(<<"react", SP, "python">>),
                       None, None)
IndexJobInputs == {IndexJob1, IndexJob2, IndexJob3}

\* query texts: empty, one word, two words, two other words, a word no job
\* has
TextInputs ==
  { <<>>, <<"python">>, <<"React", SP, "Python">>, <<"java", SP, "initech.">>,
    <<"cobol">> }

\* pairs of texts: one word each, two words each, the same words in other
\* case and order, one word once and twice, one and two words, empty and
\* blank
TextPairInputs ==
  { << <<"python">>, <<"cobol">> >>,
    << <<"python", SP, "react">>, <<"java", SP, "initech.">> >>,
    << <<"python", SP, "react">>, <<"React", SP, "Python">> >>,
    << <<"python">>, <<"python", SP, "python">> >>,
    << <<"python">>, <<"python", SP, "react">> >>,
    << <<>>, <<SP>> >> }

\* the tokens the embedder counts in a text
Tokens(text) ==
  {split(toLowerCase(text))[i] : i \in 1..Len(split(toLowerCase(text)))} \ {""}

InitIndex ==
  /\ store = <<>>
  /\ now = 1
  /\ calls = 0
  /\ proc = [p \in Procs |-> IdleProc]
  /\ vectors = <<>>
  /\ durable = <<>>
  /\ nextId = 1
  /\ probe = NoProbe
  /\ pass = NoPass

\* the entries of a sequence, as a set
Range(f) == {f[k] : k \in DOMAIN f}

\* the last serialize, clear and deserialize calls that followed one another
\* without a storage fault and with no other call in between, each with the
\* memory and the store it left
Done(op, ok, mem, dur) ==
  LET h == Append(probe.hist, [op |-> op, ok |-> ok, mem |-> mem, dur |-> dur])
  IN IF ~ok THEN <<>> ELSE IF Len(h) > 3 THEN Tail(h) ELSE h

\* vectorDB.embedJob(job)
embedJobApply ==
  \E job \in IndexJobInputs :
    /\ probe.pc = "idle"
    /\ nextId <= MaxEmbeds
    /\ Len(vectors) < MaxVectors
    /\ vectors' = Append(vectors, embedJob(job, nextId))
    /\ nextId' = nextId + 1
    /\ probe' = [NoProbe EXCEPT !.fn = "embedJob", !.arg = job.id, !.out = <<nextId>>]
    /\ UNCHANGED <<store, now, calls, proc, durable, pass>>

\* vectorDB.clear()
clearApply ==
  /\ probe.pc = "idle"
  /\ vectors' = <<>>
  /\ probe' = [NoProbe EXCEPT !.fn = "clear",
                              !.hist = Done("clear", TRUE, <<>>, durable)]
  /\ UNCHANGED <<store, now, calls, proc, durable, nextId, pass>>

\* vectorDB.generateUserEmbedding on a text, on another text, and on the
\* first text again
generateUserEmbeddingApply ==
  \E pair \in TextPairInputs : LET t1 == pair[1]  t2 == pair[2] IN
    /\ probe.pc = "idle"
    /\ probe' = [NoProbe EXCEPT !.fn = "generateUserEmbedding", !.arg = <<t1, t2>>,
                 !.out = <<generateUserEmbedding(t1), generateUserEmbedding(t2),
                           generateUserEmbedding(t1)>>]
    /\ UNCHANGED <<store, now, calls, proc, vectors, durable, nextId, pass>>

\* vectorDB.findSimilarJobs(vectorDB.generateUserEmbedding(text), limit)
findByTextApply ==
  \E text \in TextInputs, limit \in {1, MaxVectors} :
    /\ probe.pc = "idle"
    /\ probe' = [NoProbe EXCEPT !.fn = "findByText", !.arg = text, !.limit = limit,
                 !.out = findSimilarJobs(vectors, generateUserEmbedding(text), limit)]
    /\ UNCHANGED <<store, now, calls, proc, vectors, durable, nextId, pass>>

\* serialize returns or throws
serializeDone(ok, dur) ==
  [NoProbe EXCEPT !.fn = "serialize", !.hist = Done("serialize", ok, vectors, dur)]

\* vectorDB.serialize(), awaited by a caller that does nothing else until it
\* returns: await db.clear('vectors')
serializeBegin ==
  /\ probe.pc = "idle"
  /\ \E ok \in BOOLEAN :
       IF ok
       THEN /\ durable' = <<>>
            /\ probe' = IF Len(vectors) = 0 THEN serializeDone(TRUE, durable')
                        ELSE [NoProbe EXCEPT !.fn = "serialize", !.pc = "ser_put", !.i = 1,
                                             !.hist = probe.hist]
       ELSE /\ probe' = serializeDone(FALSE, durable)
            /\ UNCHANGED durable
  /\ UNCHANGED <<store, now, calls, proc, vectors, nextId, pass>>

\* vectorDB.serialize(): await db.put('vectors', vector) for the next vector
serializeNext ==
  /\ probe.pc = "ser_put"
  /\ \E ok \in BOOLEAN :
       IF ok
       THEN /\ durable' = dbPutVector(vectors[probe.i])
            /\ probe' = IF probe.i < Len(vectors) THEN [probe EXCEPT !.i = @ + 1]
                        ELSE serializeDone(TRUE, durable')
       ELSE /\ probe' = serializeDone(FALSE, durable)
            /\ UNCHANGED durable
  /\ UNCHANGED <<store, now, calls, proc, vectors, nextId, pass>>

\* the object deserialize builds from a stored record
restored(v) ==
  [id |-> v.id, embedding |-> v.embedding, text |-> v.text, metadata |-> v.metadata]

\* a restore that loses the metadata
deserialized_NoMetadata(saved) ==
  [k \in 1..Len(saved) |-> [restored(saved[k]) EXCEPT !.metadata = None]]

\* a restore that keeps what is in memory and adds the stored records
deserialized_Merged(saved) ==
  vectors \o [k \in 1..Len(saved) |-> restored(saved[k])]

\* savedVectors.map(...) in deserialize
deserialized(saved) == [k \in 1..Len(saved) |-> restored(saved[k])]

\* vectorDB.deserialize(): await db.getAll('vectors'), then this.vectors is
\* replaced
deserializeApply ==
  /\ probe.pc = "idle"
  /\ \E ok \in BOOLEAN :
       /\ vectors' = IF ok THEN deserialized(dbGetAllVectors) ELSE vectors
       /\ probe' = [NoProbe EXCEPT !.fn = "deserialize",
                                   !.hist = Done("deserialize", ok, vectors', durable)]
  /\ UNCHANGED <<store, now, calls, proc, durable, nextId, pass>>

NextIndex ==
  \/ embedJobApply
  \/ clearApply
  \/ generateUserEmbeddingApply
  \/ findByTextApply
  \/ serializeBegin
  \/ serializeNext
  \/ deserializeApply

SpecIndex == InitIndex /\ [][NextIndex]_vars

\* the number of tokens of a text
TokenCount(text) == Len(SelectSeq(split(toLowerCase(text)), LAMBDA w : w # ""))

\* C13: two texts with the same number of tokens and no token in common get
\* unequal vectors from generateUserEmbedding, and the same text gets equal
\* vectors on every call.
C13_DifferentTexts ==
  probe.fn = "generateUserEmbedding"
  => /\ probe.out[1] = probe.out[3]
     /\ (/\ Tokens(probe.arg[1]) # {}
         /\ Tokens(probe.arg[1]) \cap Tokens(probe.arg[2]) = {}
         /\ TokenCount(probe.arg[1]) = TokenCount(probe.arg[2]))
        => probe.out[1] # probe.out[2]

\* the last calls were the given ones, one after the other
LastOps(ops) ==
  /\ probe.pc = "idle"
  /\ Len(probe.hist) >= Len(ops)
  /\ \A k \in 1..Len(ops) : probe.hist[Len(probe.hist) - Len(ops) + k].op = ops[k]

\* C14: serialize, then clear, then deserialize, with nothing in between,
\* leaves in memory the set of entries that was there before clear, equal in
\* id, embedding, text and tags.
C14_RoundTrip ==
  (Len(probe.hist) = 3 /\ LastOps(<<"serialize", "clear", "deserialize">>))
  => Range(vectors) = Range(probe.hist[1].mem)

C14_Witness ==
  /\ Len(probe.hist) = 3
  /\ LastOps(<<"serialize", "clear", "deserialize">>)
  /\ Len(probe.hist[1].mem) = 2
  /\ probe.hist[2].mem = <<>>
  /\ Len(vectors) = 2

\* C15: when serialize has returned the store holds exactly the entries in
\* memory, when deserialize has returned memory holds exactly the entries of
\* the store, and a second run of either leaves what the first run left;
\* this includes the empty memory and the empty store.
C15_Snapshot ==
  /\ LastOps(<<"serialize">>) => Range(durable) = Range(vectors)
  /\ LastOps(<<"deserialize">>) => Range(vectors) = Range(durable)
  /\ (LastOps(<<"serialize", "serialize">>) \/ LastOps(<<"deserialize", "deserialize">>))
     => LET n == Len(probe.hist)
        IN /\ probe.hist[n].mem = probe.hist[n - 1].mem
           /\ probe.hist[n].dur = probe.hist[n - 1].dur
           /\ vectors = probe.hist[n].mem
           /\ durable = probe.hist[n].dur

\* deserialize ran twice in a row on a store of two entries
C15_Witness ==
  /\ LastOps(<<"deserialize", "deserialize">>)
  /\ Cardinality(DOMAIN durable) = 2
  /\ Len(vectors) = 2

\* serialize and deserialize, one after the other, on an empty memory and an
\* empty store
C15_WitnessEmpty ==
  /\ LastOps(<<"serialize", "deserialize">>)
  /\ probe.hist[Len(probe.hist)].mem = <<>>
  /\ probe.hist[Len(probe.hist) - 1].mem = <<>>
  /\ nextId = 1

\* serialize removed from the store an entry that was no longer in memory
C15_WitnessRemoved ==
  /\ LastOps(<<"serialize">>)
  /\ nextId = 3
  /\ Len(vectors) = 1
  /\ vectors[1].id = 2
  /\ DOMAIN durable = {2}

\* C26: generateUserEmbedding returns a vector of the embedder's length for
\* every text, and the all-zero vector for a text without a word.
C26_EmptyTextIsZero ==
  probe.fn = "generateUserEmbedding"
  => \A n \in {1, 2} :
       /\ Len(probe.out[n]) = EmbDim
       /\ Tokens(probe.arg[n]) = {}
          => \A idx \in 1..EmbDim : probe.out[n][idx] = 0

\* the part of C26 about the length of the vector
C26_Length ==
  probe.fn = "generateUserEmbedding"
  => \A n \in {1, 2} : Len(probe.out[n]) = EmbDim

\* the jobIds among the results of the last query
ReturnedIds == {Val(probe.out[i].jobId) : i \in 1..Len(probe.out)}

\* C12: queried with the embedding of a text of at least one word and a
\* limit that cuts nothing,
\* findSimilarJobs returns every job whose text shares a token with the
\* query text, with a positive score, and no job whose text shares none.
C12_Discriminates ==
  (probe.fn = "findByText" /\ probe.limit >= Len(vectors) /\ Tokens(probe.arg) # {})
  => \A k \in 1..Len(vectors) :
       LET jobId == Val(Val(vectors[k].metadata).jobId)
       IN IF Tokens(vectors[k].text) \cap Tokens(probe.arg) # {}
          THEN \E i \in 1..Len(probe.out) :
                 Val(probe.out[i].jobId) = jobId /\ probe.out[i].score.v > 0
          ELSE jobId \notin ReturnedIds

\* the half of C12 that the code does satisfy: a job that shares a token
\* with the query is returned with a positive score
C12_SharedReturned ==
  (probe.fn = "findByText" /\ probe.limit >= Len(vectors) /\ Tokens(probe.arg) # {})
  => \A k \in 1..Len(vectors) :
       Tokens(vectors[k].text) \cap Tokens(probe.arg) # {}
       => \E i \in 1..Len(probe.out) :
            /\ Val(probe.out[i].jobId) = Val(Val(vectors[k].metadata).jobId)
            /\ probe.out[i].score.v > 0


(***************************************************************************)
(* useJobMatcher: one matching pass (the queryFn of the hook) over the     *)
(* session store and the vector index, with the deserialize of the App's   *)
(* restoreSessionState running beside it.  A db call may fail.             *)
(***************************************************************************)
\* retry: 2 of the useQuery options
RetryLimit == 2

\* the jobs of the session that have no type='job' entry in the index
jobsToEmbed(jobs, existingVectors) ==
  SelectSeq(jobs, LAMBDA job :
    ~\E k \in 1..Len(existingVectors) :
       /\ IsJobVector(existingVectors[k])
       /\ Val(existingVectors[k].metadata).jobId = Some(job.id))

\* Promise.all(jobsToEmbed.map(embedJob)): the entries pushed, ids from id on
embedAll(todo, id) == [k \in 1..Len(todo) |-> embedJob(todo[k], id + k - 1)]

\* the query text of the pass: skills, resume, currentTitle, techStack and
\* roleKeywords joined by blanks and trimmed
userEmbeddingText(session, formData) ==
  LET skills == IF session = None \/ Val(session).skills = None THEN <<>>
                ELSE Val(Val(session).skills)
      resume == IF session = None \/ Val(session).resumeRaw = None
                   \/ Val(Val(session).resumeRaw) = <<>>
                THEN <<>> ELSE <<Val(Val(session).resumeRaw)>>
      title == IF formData.currentTitle = None \/ Val(formData.currentTitle) = <<>>
               THEN <<>> ELSE <<Val(formData.currentTitle)>>
  IN trim(join(skills \o resume \o title \o formData.techStack \o formData.roleKeywords))

\* an empty query that zeroes the scores
emptyQueryResult_Zeroed(jobs) ==
  [k \in 1..Len(jobs) |-> [jobs[k] EXCEPT !.matchScore = Some(0)]]

\* the return of the pass on an empty query text: the jobs as loaded
emptyQueryResult(jobs) == jobs

\* matchMap.get(job.id): the last match of the list with that jobId
matchFor(similarJobs, id) ==
  LET hits == {k \in 1..Len(similarJobs) : similarJobs[k].jobId = Some(id)}
  IN IF hits = {} THEN None
     ELSE Some(similarJobs[CHOOSE k \in hits : \A h \in hits : h <= k])

\* job.matchScore || 0
scoreOrZero(job) == IF job.matchScore = None THEN 0 ELSE Val(job.matchScore)

\* a merge that gives 0 to a job without a match
newScore_AbsentZero(job, match) ==
  IF match # None THEN Val(match).score.v ELSE 0

\* match !== undefined ? match.score : (job.matchScore ?? 0)
newScore(job, match) ==
  IF match # None THEN Val(match).score.v ELSE scoreOrZero(job)

\* jobs.map(...): every job of the session with its new score
scoredJobs(jobs, similarJobs) ==
  [k \in 1..Len(jobs) |->
     [jobs[k] EXCEPT !.matchScore =
        Some(newScore(jobs[k], matchFor(similarJobs, jobs[k].id)))]]

\* a pass that filters the scored list without sorting it
matchJobs_Unsorted(jobs, similarJobs, preferences) ==
  filterAndPrioritizeJobs(scoredJobs(jobs, similarJobs), preferences)

\* the scored, sorted and filtered list of the pass
matchJobs(jobs, similarJobs, preferences) ==
  LET scored == scoredJobs(jobs, similarJobs)
      order == SortDesc([k \in 1..Len(scored) |-> scoreOrZero(scored[k])])
  IN filterAndPrioritizeJobs([k \in 1..Len(scored) |-> scored[order[k]]], preferences)

\* the list of the catch block: the jobs with matchScore || 0
fallbackJobs(jobs) ==
  [k \in 1..Len(jobs) |-> [jobs[k] EXCEPT !.matchScore = Some(scoreOrZero(jobs[k]))]]

\* the queryFn resolves with a list
Resolve(r, list) ==
  [r EXCEPT !.pc = "settled", !.out = [kind |-> "ok", jobs |-> list]]

\* the queryFn rejects: useQuery runs it again, up to RetryLimit times, and
\* then reports the error
Reject(r) ==
  IF r.attempt < RetryLimit
  THEN [r EXCEPT !.pc = "deserialize", !.attempt = @ + 1, !.session = None,
                 !.jobs = <<>>, !.text = <<>>, !.phase = 0, !.arr = None, !.i = 0,
                 !.matched = <<>>, !.rec = None, !.ranked = None]
  ELSE [r EXCEPT !.pc = "settled", !.out = [kind |-> "error", jobs |-> <<>>]]

\* after the index covers the jobs, inside the try block: the ranking, up
\* to the db.get of updateJobs
rank(r, vs) ==
  LET similarJobs == findSimilarJobs(vs, generateUserEmbedding(r.text), Len(r.jobs))
      matchedJobs == matchJobs(r.jobs, similarJobs, r.prefs)
      seen == Some([vectors |-> vs, similarJobs |-> similarJobs])
  IN IF Len(matchedJobs) > 0
     THEN [r EXCEPT !.pc = "uj_get", !.matched = matchedJobs, !.ranked = seen]
     ELSE Resolve([r EXCEPT !.matched = matchedJobs, !.ranked = seen], matchedJobs)

\* after the first ensure-embedded block: the query text, the return on an
\* empty text, else on to the try block
queryStage(r) ==
  LET text == userEmbeddingText(r.session, r.formData)
  IN IF text = <<>> THEN Resolve([r EXCEPT !.text = text], emptyQueryResult(r.jobs))
     ELSE [r EXCEPT !.pc = "ensure2", !.text = text]

FormDataInputs ==
  { [currentTitle |-> None, techStack |-> <<>>, roleKeywords |-> <<>>],
    [currentTitle |-> Some(<<SP>>), techStack |-> <<>>, roleKeywords |-> <<>>],
    [currentTitle |-> Some(<<"engineer">>), techStack |-> << <<"Python">> >>,
     roleKeywords |-> <<>>] }

PreferenceInputs == { <<>>, [indeed |-> "exclude"], [indeed |-> "include"] }

MatchJob1 == mkJobFull("j1", <<"python">>, <<"acme">>, Some(<<"react">>), None, Some("linkedin"))
MatchJob2 == mkJobFull("j2", <<"java">>, <<"initech">>, None, Some(7500), Some("indeed"))

MatchJob3 ==
  mkJobFull("j3", <<"java">>, <<"initech">>, Some(<<"java", SP, "java">>), None, None)

\* what earlier page loads left: a session with two jobs, with and without
\* skills, a session whose second job is the closer one to its skills, and
\* a session without jobs
MatchStores ==
  { [u \in {"u1"} |-> mkSession("u1", 0, 0, None, None, None,
                                Some(<<MatchJob1, MatchJob2>>))],
    [u \in {"u1"} |-> mkSession("u1", 0, 0, None, Some(<< <<"python">> >>), None,
                                Some(<<MatchJob1, MatchJob3>>))],
    [u \in {"u1"} |-> mkSession("u1", 0, 0, None, Some(<< <<"python">> >>), None,
                                Some(<<MatchJob1, MatchJob2>>))],
    [u \in {"u1"} |-> mkSession("u1", 0, 0, None, None, None, None)] }

\* a job that is in no session: its text repeats the word of the title
DanglingJob ==
  mkJobFull("j9", <<"python">>, <<"acme">>, Some(<<"python", SP, "python">>), None, None)

\* the durable snapshot of the index: empty, the entry of the second job,
\* or the entry of a job that has left the session
MatchDurables ==
  { <<>>, [k \in {1} |-> embedJob(MatchJob2, 1)], [k \in {1} |-> embedJob(DanglingJob, 1)] }

InitMatch ==
  /\ store \in MatchStores
  /\ now = 1
  /\ calls = 0
  /\ proc = [p \in Procs |-> IdleProc]
  /\ vectors = <<>>
  /\ durable \in MatchDurables
  /\ nextId = 1 + Cardinality(DOMAIN durable)
  /\ probe = NoProbe
  /\ pass = NoPass

\* the hook mounts for the user: its inputs, and the jobs its mount effect
\* restored from storage (none when the effect has not loaded any)
mount ==
  \E formData \in FormDataInputs, preferences \in PreferenceInputs,
     restoredJobs \in {<<>>, JobsOf(store["u1"])} :
    /\ pass.pc = "unmounted"
    /\ pass' = [NoPass EXCEPT !.pc = "deserialize", !.userId = "u1",
                              !.formData = formData, !.prefs = preferences,
                              !.restoredJobs = restoredJobs]
    /\ UNCHANGED <<store, callVars, vectors, durable, nextId, probe>>

\* deserialize assigns a new array to this.vectors: a serialize loop of a
\* saveSessionState under way keeps the array it began with
DetachLoops(pr) ==
  [q \in Procs |->
     IF pr[q].pc = "sv_put" /\ pr[q].full = None
     THEN [pr[q] EXCEPT !.full = Some(vectors)] ELSE pr[q]]

\* the same for the serialize loop of the matching pass
DetachPass(r) ==
  [r EXCEPT !.arr = IF r.pc = "ser_put" /\ r.arr = None THEN Some(vectors) ELSE @]

\* App's restoreSessionState: vectorDB.deserialize() when the session exists;
\* a failure is logged.  A serialize loop under way keeps the array it began
\* with.
restoreDeserialize ==
  /\ pass.pc # "unmounted"
  /\ pass.app = "pending"
  /\ pass.userId \in DOMAIN store
  /\ \E ok \in BOOLEAN :
       /\ vectors' = IF ok THEN deserialized(dbGetAllVectors) ELSE vectors
       /\ pass' = [(IF ok THEN DetachPass(pass) ELSE pass) EXCEPT !.app = "done"]
       /\ proc' = IF ok THEN DetachLoops(proc) ELSE proc
  /\ UNCHANGED <<store, now, calls, durable, nextId, probe>>

\* await vectorDB.deserialize(), outside the try block
deserialize ==
  /\ pass.pc = "deserialize"
  /\ \E ok \in BOOLEAN :
       IF ok
       THEN /\ vectors' = deserialized(dbGetAllVectors)
            /\ pass' = [pass EXCEPT !.pc = "load"]
            /\ proc' = DetachLoops(proc)
       ELSE /\ pass' = Reject([pass EXCEPT !.failed = @ \cup {"deserialize"}])
            /\ UNCHANGED <<vectors, proc>>
  /\ UNCHANGED <<store, now, calls, durable, nextId, probe>>

\* await memoryBank.loadSession(userId); no jobs: return []
loadSession ==
  /\ pass.pc = "load"
  /\ \E ok \in BOOLEAN :
       IF ok
       THEN LET session == dbGet(pass.userId)
                jobs == IF session = None THEN <<>> ELSE JobsOf(Val(session))
                r == [pass EXCEPT !.session = session, !.jobs = jobs]
            IN pass' = IF Len(jobs) = 0 THEN Resolve(r, <<>>)
                       ELSE [r EXCEPT !.pc = "ensure1"]
       ELSE pass' = Reject([pass EXCEPT !.failed = @ \cup {"loadSession"}])
  /\ UNCHANGED <<store, callVars, vectors, durable, nextId, probe>>

\* await vectorDB.getAll() and the embedding of the jobs the index lacks:
\* before the try block (ensure1) and again inside it (ensure2)
ensureEmbedded ==
  /\ pass.pc \in {"ensure1", "ensure2"}
  /\ LET todo == jobsToEmbed(pass.jobs, vectors)
         phase == IF pass.pc = "ensure1" THEN 1 ELSE 2
     IN IF Len(todo) > 0
        THEN /\ vectors' = vectors \o embedAll(todo, nextId)
             /\ nextId' = nextId + Len(todo)
             /\ pass' = [pass EXCEPT !.pc = "ser_clear", !.phase = phase]
        ELSE /\ pass' = IF phase = 1 THEN queryStage(pass) ELSE rank(pass, vectors)
             /\ UNCHANGED <<vectors, nextId>>
  /\ UNCHANGED <<store, callVars, durable, probe>>

\* a throw of serialize: before the try block it rejects the queryFn, inside
\* it the catch block returns the fallback list
serializeThrows(r) ==
  LET f == [r EXCEPT !.failed = @ \cup {"serialize"}]
  IN IF r.phase = 1 THEN Reject(f) ELSE Resolve(f, fallbackJobs(r.jobs))

\* the pass goes on after serialize
afterSerialize(r, vs) == IF r.phase = 1 THEN queryStage(r) ELSE rank(r, vs)

\* vectorDB.serialize(): await db.clear('vectors'); the loop then runs over
\* this.vectors as it is now
serializeClear ==
  /\ pass.pc = "ser_clear"
  /\ \E ok \in BOOLEAN :
       IF ok
       THEN /\ durable' = <<>>
            /\ pass' = IF Len(vectors) = 0 THEN afterSerialize(pass, vectors)
                       ELSE [pass EXCEPT !.pc = "ser_put", !.i = 1, !.arr = None]
       ELSE /\ pass' = serializeThrows(pass)
            /\ UNCHANGED durable
  /\ UNCHANGED <<store, callVars, vectors, nextId, probe>>

\* vectorDB.serialize(): await db.put('vectors', vector) for the next vector
serializePut ==
  /\ pass.pc = "ser_put"
  /\ LET array == IF pass.arr = None THEN vectors ELSE Val(pass.arr) IN
       \E ok \in BOOLEAN :
         IF ok
         THEN /\ durable' = dbPutVector(array[pass.i])
              /\ pass' = IF pass.i < Len(array) THEN [pass EXCEPT !.i = @ + 1]
                         ELSE afterSerialize([pass EXCEPT !.arr = None, !.i = 0], vectors)
         ELSE /\ pass' = serializeThrows(pass)
              /\ UNCHANGED durable
  /\ UNCHANGED <<store, callVars, vectors, nextId, probe>>

\* a write-back that stores the jobs without their scores
updateJobsArg_Unscored(jobs) ==
  [jobs |-> Some([k \in 1..Len(jobs) |-> [jobs[k] EXCEPT !.matchScore = None]])]

\* MemoryBank.updateJobs(userId, jobs): updateSession(userId, { jobs })
updateJobsArg(jobs) == [jobs |-> Some(jobs)]

\* memoryBank.updateJobs(userId, matchedJobs): the db.get of updateSession;
\* not-found and storage failures are logged, the pass returns matchedJobs
updateJobsGet ==
  /\ pass.pc = "uj_get"
  /\ \E ok \in BOOLEAN :
       LET upd == updateSession(dbGet(pass.userId), updateJobsArg(pass.matched),
                                pass.userId, now)
       IN pass' = IF ok /\ ~upd.throw
                  THEN [pass EXCEPT !.pc = "uj_put", !.rec = upd.put]
                  ELSE Resolve([pass EXCEPT !.failed = @ \cup {"updateJobs"}], pass.matched)
  /\ UNCHANGED <<store, callVars, vectors, durable, nextId, probe>>

\* memoryBank.updateJobs: the db.put of updateSession
updateJobsPut ==
  /\ pass.pc = "uj_put"
  /\ \E ok \in BOOLEAN :
       IF ok
       THEN /\ store' = dbPut(Val(pass.rec))
            /\ pass' = Resolve([pass EXCEPT !.wrote = TRUE, !.rec = None], pass.matched)
       ELSE /\ pass' = Resolve([pass EXCEPT !.rec = None, !.failed = @ \cup {"updateJobs"}],
                               pass.matched)
            /\ UNCHANGED store
  /\ UNCHANGED <<callVars, vectors, durable, nextId, probe>>

NextMatch ==
  \/ mount
  \/ restoreDeserialize
  \/ deserialize
  \/ loadSession
  \/ ensureEmbedded
  \/ serializeClear
  \/ serializePut
  \/ updateJobsGet
  \/ updateJobsPut

SpecMatch == InitMatch /\ [][NextMatch]_vars

\* what the hook hands to its caller once the query has settled
hookMatchedJobs ==
  LET matchedJobs == IF pass.out.kind = "ok" THEN pass.out.jobs ELSE <<>>
      filteredRestoredJobs == filterAndPrioritizeJobs(pass.restoredJobs, pass.prefs)
  IN IF Len(matchedJobs) = 0 /\ Len(filteredRestoredJobs) > 0
     THEN filteredRestoredJobs ELSE matchedJobs

hookError == pass.out.kind = "error"

\* C8: a pass over a session with jobs whose query text is empty returns the
\* jobs with every matchScore as it was stored and writes nothing to the
\* session.
C8_Preservation ==
  (/\ pass.pc = "settled"
   /\ pass.out.kind = "ok"
   /\ Len(pass.jobs) > 0
   /\ userEmbeddingText(pass.session, pass.formData) = <<>>)
  => /\ pass.out.jobs = JobsOf(store[pass.userId])
     /\ \A k \in 1..Len(pass.jobs) :
          pass.out.jobs[k].matchScore = pass.jobs[k].matchScore
     /\ hookMatchedJobs = pass.jobs
     /\ ~pass.wrote
     /\ store \in MatchStores

C8_Witness ==
  /\ pass.pc = "settled"
  /\ pass.out.kind = "ok"
  /\ Len(pass.out.jobs) = 2
  /\ pass.formData.currentTitle = Some(<<SP>>)
  /\ pass.out.jobs[2].matchScore = Some(7500)
  /\ pass.out.jobs[1].matchScore = None
  /\ \E k \in 1..Len(vectors) : Val(vectors[k].metadata).jobId = Some("j1")

\* C9: a pass over a session with at least one job settles with a list of
\* the session's jobs and never with an error when serialize fails in the
\* ensure-embedded step or updateJobs fails on write-back.
C9_NeverError ==
  (/\ pass.pc = "settled"
   /\ pass.failed \subseteq {"serialize", "updateJobs"}
   /\ pass.userId \in DOMAIN store
   /\ Len(JobsOf(store[pass.userId])) > 0)
  => /\ ~hookError
     /\ pass.out.kind = "ok"
     /\ \A k \in 1..Len(pass.out.jobs) :
          \E j \in 1..Len(JobsOf(store[pass.userId])) :
            JobsOf(store[pass.userId])[j].id = pass.out.jobs[k].id

\* the pass ranked the jobs and returned a list
Ranked ==
  /\ pass.pc = "settled"
  /\ pass.out.kind = "ok"
  /\ pass.ranked # None
  /\ pass.text # <<>>

\* the job of the session with the given id
SessionJob(id) == pass.jobs[CHOOSE k \in 1..Len(pass.jobs) : pass.jobs[k].id = id]

\* the scores findSimilarJobs returned for a job id
ScoresFor(id) ==
  {Val(pass.ranked).similarJobs[k].score.v :
     k \in {h \in 1..Len(Val(pass.ranked).similarJobs) :
              Val(pass.ranked).similarJobs[h].jobId = Some(id)}}

C19_OnlyMatched ==
  Ranked => \A i \in 1..Len(pass.out.jobs) : ScoresFor(pass.out.jobs[i].id) # {}

\* the index without the job entries whose jobId is not a job of the session
NoDangling(vs, jobs) ==
  SelectSeq(vs, LAMBDA v :
    IsJobVector(v) => \E k \in 1..Len(jobs) : Val(v.metadata).jobId = Some(jobs[k].id))

\* C20: a pass returns the jobs and scores it would return on the index
\* without its dangling entries.
C20_DanglingIgnored ==
  Ranked
  => pass.out.jobs =
       matchJobs(pass.jobs,
                 findSimilarJobs(NoDangling(Val(pass.ranked).vectors, pass.jobs),
                                 generateUserEmbedding(pass.text), Len(pass.jobs)),
                 pass.prefs)

\* the same, for the passes that ranked an index without dangling entries
C20_WithoutDangling ==
  (Ranked /\ NoDangling(Val(pass.ranked).vectors, pass.jobs) = Val(pass.ranked).vectors)
  => pass.out.jobs =
       matchJobs(pass.jobs,
                 findSimilarJobs(Val(pass.ranked).vectors,
                                 generateUserEmbedding(pass.text), Len(pass.jobs)),
                 pass.prefs)

(***************************************************************************)
(* filterAndPrioritizeJobs applied to drawn job lists and preferences      *)
(***************************************************************************)
MaxJobs == 3

\* the jobSite of a job: three sites, or none
SiteInputs == {Some("linkedin"), Some("indeed"), Some("glassdoor"), None}

\* job lists: the k-th job has id jk and a drawn site
FilterJobInputs ==
  UNION { { [k \in 1..n |-> mkJob("j" \o ToString(k), "t", None, sites[k])] :
            sites \in [1..n -> SiteInputs] } : n \in 0..MaxJobs }

\* preference maps: empty, one site excluded, included or neutral, jobs
\* without a site excluded or included, a mix
FilterPreferenceInputs ==
  { <<>>,
    [indeed |-> "exclude"],
    [indeed |-> "include"],
    [indeed |-> "neutral"],
    [Unknown |-> "exclude"],
    [Unknown |-> "include", indeed |-> "include"],
    [linkedin |-> "exclude", indeed |-> "include", glassdoor |-> "neutral"] }

InitFilter ==
  /\ store = <<>>
  /\ now = 1
  /\ calls = 0
  /\ proc = [p \in Procs |-> IdleProc]
  /\ vectors = <<>>
  /\ durable = <<>>
  /\ nextId = 1
  /\ probe = NoProbe
  /\ pass = NoPass

\* filterAndPrioritizeJobs(jobs, preferences), and the same on its result;
\* the function keeps no state, one application per behaviour shows them all
filterAndPrioritizeJobsApply ==
  \E jobs \in FilterJobInputs, preferences \in FilterPreferenceInputs :
    /\ probe.fn = "none"
    /\ probe' = [NoProbe EXCEPT
                   !.fn = "filterAndPrioritizeJobs", !.arg = <<jobs, preferences>>,
                   !.out = <<filterAndPrioritizeJobs(jobs, preferences),
                             filterAndPrioritizeJobs(
                               filterAndPrioritizeJobs(jobs, preferences), preferences)>>]
    /\ UNCHANGED <<store, now, calls, proc, vectors, durable, nextId, pass>>

NextFilter == filterAndPrioritizeJobsApply

SpecFilter == InitFilter /\ [][NextFilter]_vars

\* the position of the job with the given id in a list
PosOf(jobs, id) == CHOOSE k \in 1..Len(jobs) : jobs[k].id = id

\* the preference the map gives the site of a job
SitePref(job, preferences) ==
  LET site == IF job.jobSite = None THEN "Unknown" ELSE Val(job.jobSite)
  IN IF site \in DOMAIN preferences THEN preferences[site] ELSE "neutral"

\* C16: with a non-empty preference map the result holds exactly the input
\* jobs whose site is not excluded, each once, the jobs of included sites
\* before all others, and each of the two groups in its input order; with
\* an empty map the result is the input list.
C16_FilterAndPrioritize ==
  probe.fn = "filterAndPrioritizeJobs"
  => LET jobs == probe.arg[1]
         prefs == probe.arg[2]
         out == probe.out[1]
         kept == {k \in 1..Len(jobs) : SitePref(jobs[k], prefs) # "exclude"}
     IN IF DOMAIN prefs = {} THEN out = jobs
        ELSE /\ Len(out) = Cardinality(kept)
             /\ {out[i] : i \in 1..Len(out)} = {jobs[k] : k \in kept}
             /\ \A i \in 1..Len(out), j \in 1..Len(out) :
                  i < j =>
                    /\ SitePref(out[j], prefs) = "include"
                       => SitePref(out[i], prefs) = "include"
                    /\ (SitePref(out[i], prefs) = "include")
                        = (SitePref(out[j], prefs) = "include")
                       => PosOf(jobs, out[i].id) < PosOf(jobs, out[j].id)

\* an excluded job is dropped and an included job overtakes a neutral one
C16_Witness ==
  /\ probe.fn = "filterAndPrioritizeJobs"
  /\ Len(probe.arg[1]) = 3
  /\ Len(probe.out[1]) = 2
  /\ probe.out[1][1] = probe.arg[1][3]
  /\ probe.out[1][2] = probe.arg[1][1]
  /\ SitePref(probe.arg[1][2], probe.arg[2]) = "exclude"
  /\ SitePref(probe.arg[1][3], probe.arg[2]) = "include"

\* C17: filtering the filtered list again with the same preferences gives
\* the filtered list, element by element.
C17_FilterIdempotent ==
  probe.fn = "filterAndPrioritizeJobs" => probe.out[2] = probe.out[1]

\* a list that the filter shortens and reorders, with two jobs in one group
C17_Witness ==
  /\ probe.fn = "filterAndPrioritizeJobs"
  /\ probe.out[1] # probe.arg[1]
  /\ Len(probe.out[1]) < Len(probe.arg[1])
  /\ \E i \in 1..Len(probe.out[1]) : \E j \in (i + 1)..Len(probe.out[1]) :
       SitePref(probe.out[1][i], probe.arg[2]) = SitePref(probe.out[1][j], probe.arg[2])
  /\ probe.out[2] = probe.out[1]

\* C24: the list a pass with a non-empty query returns holds no job of an
\* excluded site, has the jobs of included sites before the others, and in
\* each of the two groups is ordered by non-increasing matchScore, jobs of
\* equal score in the order of the session's list.
C24_ReturnedOrder ==
  Ranked
  => LET out == pass.out.jobs
         prefs == pass.prefs
     IN /\ \A i \in 1..Len(out) : SitePref(out[i], prefs) # "exclude"
        /\ \A i \in 1..Len(out), j \in 1..Len(out) :
             i < j =>
               /\ SitePref(out[j], prefs) = "include" => SitePref(out[i], prefs) = "include"
               /\ (SitePref(out[i], prefs) = "include") = (SitePref(out[j], prefs) = "include")
                  => /\ scoreOrZero(out[i]) >= scoreOrZero(out[j])
                     /\ scoreOrZero(out[i]) = scoreOrZero(out[j])
                        => PosOf(pass.jobs, out[i].id) < PosOf(pass.jobs, out[j].id)

\* two jobs of one group come back in the order of their scores, against
\* the order of the session's list
C24_Witness ==
  /\ Ranked
  /\ Len(pass.out.jobs) = 2
  /\ SitePref(pass.out.jobs[1], pass.prefs) = SitePref(pass.out.jobs[2], pass.prefs)
  /\ scoreOrZero(pass.out.jobs[1]) > scoreOrZero(pass.out.jobs[2])
  /\ PosOf(pass.jobs, pass.out.jobs[1].id) > PosOf(pass.jobs, pass.out.jobs[2].id)

\* an included job with the lower score comes back first
C24_WitnessIncluded ==
  /\ Ranked
  /\ Len(pass.out.jobs) = 2
  /\ SitePref(pass.out.jobs[1], pass.prefs) = "include"
  /\ SitePref(pass.out.jobs[2], pass.prefs) # "include"
  /\ scoreOrZero(pass.out.jobs[1]) < scoreOrZero(pass.out.jobs[2])

\* C25: after a pass with a non-empty query whose updateJobs succeeded the
\* stored job list is the returned list, which is not empty and holds no job
\* of an excluded site; after a pass that wrote nothing the stored session
\* is the one the pass loaded.
C25_WriteBack ==
  Ranked
  => IF pass.wrote
     THEN /\ Len(pass.out.jobs) > 0
          /\ store[pass.userId].jobs = Some(pass.out.jobs)
          /\ \A k \in 1..Len(JobsOf(store[pass.userId])) :
               SitePref(JobsOf(store[pass.userId])[k], pass.prefs) # "exclude"
          /\ \A f \in Fields \ {"jobs", "updatedAt"} :
               store[pass.userId][f] = Val(pass.session)[f]
     ELSE /\ store[pass.userId] = Val(pass.session)
          /\ Len(pass.out.jobs) = 0 \/ "updateJobs" \in pass.failed

\* a pass stored a rescored list that lacks the job of the excluded site
C25_Witness ==
  /\ Ranked
  /\ pass.wrote
  /\ Len(JobsOf(store[pass.userId])) = 1
  /\ Len(pass.jobs) = 2
  /\ JobsOf(store[pass.userId])[1].matchScore # None
  /\ JobsOf(store[pass.userId])[1].matchScore # SessionJob(JobsOf(store[pass.userId])[1].id).matchScore

(***************************************************************************)
(* The hooks that write the session: job search, job management, the       *)
(* matcher's write-back, the periodic save.  Each runs loadSession and     *)
(* then updateSession, suspended at every db call.                         *)
(***************************************************************************)
HookJob1 == mkJob("j1", "A", Some(7500), None)
HookJob2 == mkJob("j2", "A", None, Some("indeed"))

\* the session an earlier page load left: two jobs, one of them scored
HookStores ==
  { [u \in {"u1"} |->
       mkSession("u1", 0, 0, Some([currentTitle |-> "t1"]), None, None,
                 Some(<<HookJob1, HookJob2>>))] }

\* tavilyClient.searchJobs results: ids are job_<Date.now()>_<index>, no
\* result carries a matchScore; a new id, and an id that is already stored
SearchResultInputs ==
  { <<mkJob("j3", "B", None, None)>>,
    <<mkJob("j1", "B", None, None), mkJob("j3", "B", None, None)>> }

\* updateJob(jobId, updates): updates that do not name matchScore
JobUpdateInputs == { [title |-> <<"C">>], [jobSite |-> Some("linkedin")] }

\* the ranking of a matching pass: a score for j1, for j2, or for none
SimilarInputs ==
  { <<>>,
    <<[jobId |-> Some("j1"), score |-> Num(9000), metadata |-> <<>>]>>,
    <<[jobId |-> Some("j2"), score |-> Num(6000), metadata |-> <<>>]>> }

InitHooks ==
  /\ store \in HookStores
  /\ now = 1
  /\ calls = 0
  /\ proc = [p \in Procs |-> IdleProc]
  /\ vectors = <<>>
  /\ durable = <<>>
  /\ nextId = 1
  /\ probe = NoProbe
  /\ pass = NoPass

\* a merge that appends the results to the stored jobs
mergeJobs_Concat(existingJobs, searchResults) == existingJobs \o searchResults

RECURSIVE setAll(_, _)
\* jobs.forEach((job) => jobMap.set(job.id, job)): a key keeps the place of
\* its first set and takes the value of its last
setAll(jobMap, jobs) ==
  IF jobs = <<>> THEN jobMap
  ELSE setAll(upsertJob(jobMap, Head(jobs)), Tail(jobs))

\* the merge of useJobSearch: the stored jobs, then the results, set into a
\* Map keyed by id; Array.from(jobMap.values())
mergeJobs(existingJobs, searchResults) ==
  setAll(setAll(<<>>, existingJobs), searchResults)

\* updateJob: jobs[jobIndex] = { ...jobs[jobIndex], ...updates, updatedAt }
updatedJobs(jobs, jobIndex, updates, t) ==
  [jobs EXCEPT ![jobIndex] = Spread(Spread(jobs[jobIndex], updates), [updatedAt |-> t])]

\* jobs.findIndex((j) => j.id === jobId): 0 stands for -1
findIndex(jobs, jobId) ==
  IF \E i \in 1..Len(jobs) : jobs[i].id = jobId
  THEN CHOOSE i \in 1..Len(jobs) :
         jobs[i].id = jobId /\ \A j \in 1..(i - 1) : jobs[j].id # jobId
  ELSE 0

\* useJobSearch queryFn once the search has resolved: embedJob for every
\* result, with no look at the index, up to the loadSession of the write-back
jobSearchCall(p) ==
  \E searchResults \in SearchResultInputs :
    /\ CanCall(p)
    /\ calls' = calls + 1
    /\ now' = now + 1
    /\ proc' = Called(p, Start(p, "jobSearch", "u1", searchResults, "js_load"))
    /\ vectors' = vectors \o embedAll(searchResults, nextId)
    /\ nextId' = nextId + Len(searchResults)
    /\ UNCHANGED <<store, durable, probe, pass>>

\* useJobManagement.updateJob(jobId, updates), up to its loadSession
updateJobCall(p) ==
  \E jobId \in {"j1", "j9"}, updates \in JobUpdateInputs :
    /\ CanCall(p)
    /\ calls' = calls + 1
    /\ now' = now + 1
    /\ proc' = Called(p, Start(p, "updateJob", "u1",
                               [jobId |-> jobId, updates |-> updates], "uj_load"))
    /\ UNCHANGED store
    /\ UNCHANGED indexVars

\* a matching pass whose ranking is similarJobs, up to its loadSession
matcherCall(p) ==
  \E similarJobs \in SimilarInputs :
    /\ CanCall(p)
    /\ calls' = calls + 1
    /\ now' = now + 1
    /\ proc' = Called(p, Start(p, "matcher", "u1", similarJobs, "mp_load"))
    /\ UNCHANGED store
    /\ UNCHANGED indexVars

\* saveSessionState(userId), up to its loadSession
saveSessionStateCall(p) ==
  /\ CanCall(p)
  /\ calls' = calls + 1
  /\ now' = now + 1
  /\ proc' = Called(p, Start(p, "saveSessionState", "u1", <<>>, "st_load"))
  /\ UNCHANGED store
  /\ UNCHANGED indexVars

\* useJobSearch: await loadSession; merge; updateJobs(userId, allJobs)
jobSearchLoad(p) ==
  /\ proc[p].pc = "js_load"
  /\ LET session == dbGet(proc[p].uid)
         existingJobs == IF session = None THEN <<>> ELSE JobsOf(Val(session))
     IN proc' = [proc EXCEPT ![p] =
          EnterUpdate([proc[p] EXCEPT !.read = Some(existingJobs)],
                      updateJobsArg(mergeJobs(existingJobs, proc[p].arg)))]
  /\ UNCHANGED <<store, now, calls>>
  /\ UNCHANGED indexVars

\* updateJob: await loadSession; findIndex; the throw on -1; the job is
\* rewritten in place; updateJobs(userId, jobs)
updateJobLoad(p) ==
  /\ proc[p].pc = "uj_load"
  /\ LET session == dbGet(proc[p].uid)
         jobs == IF session = None THEN <<>> ELSE JobsOf(Val(session))
         jobIndex == findIndex(jobs, proc[p].arg.jobId)
     IN proc' = [proc EXCEPT ![p] =
          IF jobIndex = 0 THEN Settle(proc[p], "failed", "JobNotFound", "none")
          ELSE EnterUpdate([proc[p] EXCEPT !.read = Some(jobs)],
                           updateJobsArg(updatedJobs(jobs, jobIndex,
                                                     proc[p].arg.updates, now)))]
  /\ UNCHANGED <<store, now, calls>>
  /\ UNCHANGED indexVars

\* the matching pass: await loadSession; no jobs: return; the ranking is
\* merged into the jobs; a non-empty list goes to updateJobs
matcherLoad(p) ==
  /\ proc[p].pc = "mp_load"
  /\ LET session == dbGet(proc[p].uid)
         jobs == IF session = None THEN <<>> ELSE JobsOf(Val(session))
         matchedJobs == matchJobs(jobs, proc[p].arg, <<>>)
     IN proc' = [proc EXCEPT ![p] =
          IF Len(jobs) = 0 \/ Len(matchedJobs) = 0
          THEN Settle(proc[p], "done", "none", "none")
          ELSE EnterUpdate([proc[p] EXCEPT !.read = Some(jobs)],
                           updateJobsArg(matchedJobs))]
  /\ UNCHANGED <<store, now, calls>>
  /\ UNCHANGED indexVars

\* saveSessionState: await loadSession; if (session) updateSession(userId,
\* session); without a session it goes on to serialize
saveSessionStateLoad(p) ==
  /\ proc[p].pc = "st_load"
  /\ LET session == dbGet(proc[p].uid)
     IN proc' = [proc EXCEPT ![p] =
          IF session = None THEN [proc[p] EXCEPT !.pc = "sv_clear"]
          ELSE EnterUpdate([proc[p] EXCEPT !.read = session], Val(session))]
  /\ UNCHANGED <<store, now, calls>>
  /\ UNCHANGED indexVars

\* a settled saveSessionState: what its serialize began with and the array
\* its loop ran over stay on record
SettleSave(r, pcEnd, e) ==
  [Settle(r, pcEnd, e, "none") EXCEPT !.seen = r.seen, !.full = r.full]

\* no serialize but that of process p is under way
SerializeAlone(p) ==
  /\ pass.pc \notin {"ser_clear", "ser_put"}
  /\ \A q \in Procs \ {p} : proc[q].pc \notin {"sv_clear", "sv_put"}

\* saveSessionState: vectorDB.serialize(), its await db.clear('vectors');
\* the loop then runs over this.vectors as it is now.  Storage is taken to
\* answer: a throw rejects the save and leaves what the steps before it did
saveSessionStateClear(p) ==
  /\ proc[p].pc = "sv_clear"
  /\ durable' = <<>>
  /\ LET r == [proc[p] EXCEPT
                 !.seen = Some([vectors |-> vectors, nextId |-> nextId,
                                alone |-> SerializeAlone(p)]),
                 !.full = None]
     IN proc' = [proc EXCEPT ![p] =
          IF Len(vectors) = 0 THEN SettleSave(r, "done", "none")
          ELSE [r EXCEPT !.pc = "sv_put", !.ts = 1]]
  /\ UNCHANGED <<store, now, calls, vectors, nextId, probe, pass>>

\* saveSessionState: vectorDB.serialize(), await db.put('vectors', vector)
\* for the next vector of the array the loop runs over
saveSessionStatePut(p) ==
  /\ proc[p].pc = "sv_put"
  /\ LET array == IF proc[p].full = None THEN vectors ELSE Val(proc[p].full)
     IN /\ durable' = dbPutVector(array[proc[p].ts])
        /\ proc' = [proc EXCEPT ![p] =
             IF proc[p].ts < Len(array) THEN [proc[p] EXCEPT !.ts = @ + 1]
             ELSE SettleSave(proc[p], "done", "none")]
  /\ UNCHANGED <<store, now, calls, vectors, nextId, probe, pass>>

NextHooks ==
  \E p \in Procs :
    \/ jobSearchCall(p)
    \/ updateJobCall(p)
    \/ matcherCall(p)
    \/ saveSessionStateCall(p)
    \/ addJobCall(p)
    \/ updateSessionCall(p)
    \/ updateProfileCall(p)
    \/ jobSearchLoad(p)
    \/ updateJobLoad(p)
    \/ matcherLoad(p)
    \/ saveSessionStateLoad(p)
    \/ saveSessionStateClear(p)
    \/ saveSessionStatePut(p)
    \/ addJobGet(p)
    \/ updateProfileGet(p)
    \/ updateSessionGet(p)
    \/ updateSessionPut(p)

SpecHooks == InitHooks /\ [][NextHooks]_vars

\* the ids of a job list are pairwise distinct
DistinctIds(jobs) ==
  \A i \in 1..Len(jobs), j \in 1..Len(jobs) : jobs[i].id = jobs[j].id => i = j

\* C23: the job ids of every stored job list are pairwise distinct.
C23_UniqueIds ==
  \A u \in DOMAIN store : DistinctIds(JobsOf(store[u]))

\* a search result with a stored id has been merged into the stored list
C23_Witness ==
  /\ \E p \in Procs :
       /\ proc[p].op = "jobSearch"
       /\ proc[p].pc = "done"
       /\ \E k \in 1..Len(proc[p].arg) : proc[p].arg[k].id = "j1"
  /\ \E p \in Procs : proc[p].op \in {"addJob", "matcher", "updateJob"} /\ proc[p].pc = "done"
  /\ Len(JobsOf(store["u1"])) = 3

\* the stored job with the id of job, if any, has the matchScore of job
ScoreKept(job, jobs) ==
  \E k \in 1..Len(jobs) : jobs[k].id = job.id /\ jobs[k].matchScore = job.matchScore

\* process p completes the write-back of a job search or of updateJob
WritesBack(p) ==
  /\ proc[p].op \in {"jobSearch", "updateJob"}
  /\ proc[p].pc = "us_put"
  /\ proc'[p].pc = "done"

\* C22: a stored job with a matchScore has the same matchScore after a
\* job-search write-back and after updateJob with updates that do not name
\* matchScore.
C22_ScoreSurvives ==
  [][\A p \in Procs :
       WritesBack(p) =>
         \A i \in 1..Len(JobsOf(store["u1"])) :
           JobsOf(store["u1"])[i].matchScore # None
             => ScoreKept(JobsOf(store["u1"])[i], JobsOf(store'["u1"]))]_vars

\* C22, the part the code keeps: with no write between the load and the
\* write-back, and no search result carrying a stored id, the matchScore
\* of every stored job is kept.
C22_KeptWhenFresh ==
  [][\A p \in Procs :
       (/\ WritesBack(p)
        /\ proc[p].read = Some(JobsOf(store["u1"]))
        /\ proc[p].op = "jobSearch" =>
              \A k \in 1..Len(proc[p].arg), i \in 1..Len(JobsOf(store["u1"])) :
                proc[p].arg[k].id # JobsOf(store["u1"])[i].id)
       => \A i \in 1..Len(JobsOf(store["u1"])) :
            JobsOf(store["u1"])[i].matchScore # None
              => ScoreKept(JobsOf(store["u1"])[i], JobsOf(store'["u1"]))]_vars

\* the record s holds every field the completed call of process q wrote
KeptBy(q, s) ==
  CASE proc[q].op = "updateSession" ->
         \A f \in DOMAIN proc[q].arg \ {"userId"} : s[f] = proc[q].arg[f]
    [] proc[q].op = "updateProfile" ->
         /\ s.profile # None
         /\ \A k \in DOMAIN proc[q].arg : k \in DOMAIN Val(s.profile)
                                           /\ Val(s.profile)[k] = proc[q].arg[k]
    [] proc[q].op = "updateJob" ->
         \E i \in 1..Len(JobsOf(s)) :
           /\ JobsOf(s)[i].id = proc[q].arg.jobId
           /\ \A k \in DOMAIN proc[q].arg.updates :
                JobsOf(s)[i][k] = proc[q].arg.updates[k]
    [] proc[q].op = "matcher" ->
         \A n \in 1..Len(proc[q].arg) :
           \E i \in 1..Len(JobsOf(s)) :
             /\ Some(JobsOf(s)[i].id) = proc[q].arg[n].jobId
             /\ JobsOf(s)[i].matchScore = newScore(JobsOf(s)[i], Some(proc[q].arg[n]))
    [] OTHER -> TRUE

\* C28: after saveSessionState and one other writer of the same user have
\* both completed, in any interleaving, every field the other writer wrote
\* holds the other writer's value.
C28_OtherWriterKept ==
  \A p \in Procs, q \in Procs :
    (/\ calls = 2
     /\ proc[p].op = "saveSessionState" /\ proc[p].pc = "done"
     /\ proc[q].op \in {"updateSession", "updateProfile", "updateJob", "matcher"}
     /\ proc[q].uid = "u1" /\ proc[q].pc = "done")
    => KeptBy(q, store["u1"])

\* C28, the part the code keeps: when no one wrote the record between the
\* load and the put of saveSessionState, the put changes updatedAt only.
C28_AloneOnlyUpdatedAt ==
  [][\A p \in Procs :
       (/\ proc[p].op = "saveSessionState"
        /\ proc[p].pc = "us_put"
        /\ proc'[p].pc = "sv_clear"
        /\ proc[p].read = Some(store["u1"]))
       => \A f \in DOMAIN store["u1"] \ {"updatedAt"} :
            store'["u1"][f] = store["u1"][f]]_vars

(***************************************************************************)
(* The index under the matching pass, the Dashboard effect, the auto-save  *)
(* and the job search, all on the one vectorDB of the page                 *)
(***************************************************************************)
\* the session the page works on
CoverStores ==
  { [u \in {"u1"} |-> mkSession("u1", 0, 0, None, Some(<< <<"python">> >>), None,
                                Some(<<MatchJob1, MatchJob2>>))] }

InitCover ==
  /\ store \in CoverStores
  /\ now = 1
  /\ calls = 0
  /\ proc = [p \in Procs |-> IdleProc]
  /\ vectors = <<>>
  /\ durable = <<>>
  /\ nextId = 1
  /\ probe = NoProbe
  /\ pass = [NoPass EXCEPT !.pc = "deserialize", !.userId = "u1",
                           !.formData = [currentTitle |-> None, techStack |-> <<>>,
                                         roleKeywords |-> <<>>],
                           !.app = "done", !.attempt = RetryLimit]

\* the Dashboard's embedJobs effect, up to its await vectorDB.deserialize()
dashboardCall(p) ==
  /\ CanCall(p)
  /\ calls' = calls + 1
  /\ now' = now + 1
  /\ proc' = Called(p, Start(p, "dashboard", "u1", <<>>, "dz_deserialize"))
  /\ UNCHANGED store
  /\ UNCHANGED indexVars

\* the effect's vectorDB.deserialize().  Storage is taken to answer: a
\* failure is logged and ends the effect where it is
dashboardDeserialize(p) ==
  /\ proc[p].pc = "dz_deserialize"
  /\ vectors' = deserialized(dbGetAllVectors)
  /\ proc' = [DetachLoops(proc) EXCEPT ![p].pc = "dz_load"]
  /\ pass' = DetachPass(pass)
  /\ UNCHANGED <<store, now, calls, durable, nextId, probe>>

\* the effect's loadSession; no jobs: return
dashboardLoad(p) ==
  /\ proc[p].pc = "dz_load"
  /\ LET session == dbGet(proc[p].uid)
         jobs == IF session = None THEN <<>> ELSE JobsOf(Val(session))
     IN proc' = [proc EXCEPT ![p] =
          IF Len(jobs) = 0 THEN Settle(proc[p], "done", "none", "none")
          ELSE [proc[p] EXCEPT !.pc = "dz_embed", !.arg = jobs]]
  /\ UNCHANGED <<store, now, calls>>
  /\ UNCHANGED indexVars

\* the effect's getAll() and the embedding of the jobs the index lacks:
\* getAll resolves without waiting for storage and addVector pushes before
\* its first await, so nothing that waits for storage runs in between; the
\* effect does not serialize
dashboardEmbed(p) ==
  /\ proc[p].pc = "dz_embed"
  /\ LET todo == jobsToEmbed(proc[p].arg, vectors)
     IN /\ vectors' = vectors \o embedAll(todo, nextId)
        /\ nextId' = nextId + Len(todo)
  /\ proc' = [proc EXCEPT ![p] = Settle(proc[p], "done", "none", "none")]
  /\ UNCHANGED <<store, now, calls, durable, probe, pass>>

NextCover ==
  \/ deserialize
  \/ loadSession
  \/ ensureEmbedded
  \/ serializeClear
  \/ serializePut
  \/ updateJobsGet
  \/ updateJobsPut
  \/ \E p \in Procs :
       \/ dashboardCall(p)
       \/ saveSessionStateCall(p)
       \/ dashboardDeserialize(p)
       \/ dashboardLoad(p)
       \/ dashboardEmbed(p)
       \/ saveSessionStateLoad(p)
       \/ saveSessionStateClear(p)
       \/ saveSessionStatePut(p)
       \/ updateSessionGet(p)
       \/ updateSessionPut(p)

SpecCover == InitCover /\ [][NextCover]_vars

\* the index vs holds an entry tagged type="job" for the job id
Covered(vs, id) ==
  \E n \in 1..Len(vs) : IsJobVector(vs[n]) /\ Val(vs[n].metadata).jobId = Some(id)

\* C21: when the matching pass calls findSimilarJobs, every job of the
\* session it loaded has an entry tagged type="job" in the in-memory index,
\* whatever the Dashboard effect and the auto-save did meanwhile.
C21_Coverage ==
  pass.ranked # None =>
    \A k \in 1..Len(pass.jobs) : Covered(Val(pass.ranked).vectors, pass.jobs[k].id)

\* C21, the part the code keeps: a pass that ranks before the Dashboard
\* effect and the auto-save have started finds every job covered.
C21_CoverageAlone ==
  (pass.ranked # None /\ calls = 0) =>
    \A k \in 1..Len(pass.jobs) : Covered(Val(pass.ranked).vectors, pass.jobs[k].id)

\* the entries of vs tagged type="job" have pairwise distinct job ids
OnePerJob(vs) ==
  \A a \in 1..Len(vs), b \in 1..Len(vs) :
    (/\ IsJobVector(vs[a]) /\ IsJobVector(vs[b])
     /\ Val(vs[a].metadata).jobId = Val(vs[b].metadata).jobId) => a = b

\* C29: the index holds at most one entry tagged type="job" per job id, in
\* memory and in the durable snapshot, in every reachable state.
C29_OneEntryPerJob ==
  OnePerJob(vectors) /\ OnePerJob(dbGetAllVectors)

\* C29, the part the code keeps: the in-memory index has one entry per job
\* id, no search result being embedded twice.
C29_MemoryOnePerJob == OnePerJob(vectors)

\* C30: a saveSessionState whose serialize loop was under way when a
\* deserialize ran, with no insert and no other serialize since it began,
\* leaves the in-memory entries and the durable entries equal to the
\* in-memory entries it began with.
C30_NoPartialSnapshot ==
  \A p \in Procs :
    (/\ proc[p].op = "saveSessionState" /\ proc[p].pc = "done"
     /\ proc[p].seen # None /\ proc[p].full # None
     /\ Val(proc[p].seen).alone
     /\ Val(proc[p].seen).nextId = nextId
     /\ SerializeAlone(p)
     /\ \A q \in Procs \ {p} : proc[q].op # "saveSessionState")
    => /\ Range(vectors) = Range(Val(proc[p].seen).vectors)
       /\ Range(dbGetAllVectors) = Range(Val(proc[p].seen).vectors)

\* C30, the part the code keeps: the durable entries are the in-memory
\* entries the serialize began with.
C30_DurableWhole ==
  \A p \in Procs :
    (/\ proc[p].op = "saveSessionState" /\ proc[p].pc = "done"
     /\ proc[p].seen # None /\ proc[p].full # None
     /\ Val(proc[p].seen).alone
     /\ Val(proc[p].seen).nextId = nextId
     /\ SerializeAlone(p)
     /\ \A q \in Procs \ {p} : proc[q].op # "saveSessionState")
    => Range(dbGetAllVectors) = Range(Val(proc[p].seen).vectors)

====
